---------------------------- MODULE Spec2Model ----------------------------
(***************************************************************************)
(* The rate-limit forecaster of vc_oracle (crates/vc_oracle/src/          *)
(* rate_limit.rs): RateLimitForecaster::forecast and the functions it is   *)
(* made of.                                                                *)
(*                                                                         *)
(* Numbers.  TLC's integers are 32-bit, the program's are u64, i64 and     *)
(* f64.  A natural number of any size is a little-endian sequence of       *)
(* 15-bit limbs ("Big").  An f64 is an IEEE-754 binary64 value: NaN, an    *)
(* infinity, or (-1)^s * m * 2^e with m a Big of at most 53 bits, and      *)
(* every operation rounds to nearest, ties to even, as the hardware does.  *)
(* A std::time::Duration is whole seconds (a Big, the u64) and             *)
(* nanoseconds.  An i64 is a sign and a magnitude (a Big).  A chrono        *)
(* DateTime is the i64 count of milliseconds from the model's time origin, *)
(* and a TimeDelta the i64 count of milliseconds between two DateTimes.    *)
(*                                                                         *)
(* A panic is a result of its own: a function that may panic returns       *)
(* Ok(value) or Panic, and a panic anywhere inside forecast() unwinds      *)
(* through it.                                                             *)
(*                                                                         *)
(* Locals.  A `let` of the source whose value is used more than once is    *)
(* an argument of an operator that holds the rest of the function          *)
(* (velocity_over, time_to_use, forecast_at, forecast_with, ...), so that  *)
(* its expression is written once.                                         *)
(*                                                                         *)
(* State.  config is the forecaster's ForecastConfig, now the wall clock,  *)
(* samples the list the caller holds, calls the invocations of forecast    *)
(* on that list, out the last invocation and prev the one before it; call  *)
(* holds the arguments when a single function is called on its own.        *)
(***************************************************************************)
EXTENDS Integers, Sequences, FiniteSets, TLC

VARIABLES config, now, samples, calls, out, prev, call

vars == <<config, now, samples, calls, out, prev, call>>

(***************************************************************************)
(* Naturals of any size                                                    *)
(***************************************************************************)
LimbBits == 15
Base == 2^LimbBits

RECURSIVE Pow2(_)
Pow2(k) == IF k = 0 THEN 1 ELSE 2 * Pow2(k - 1)

Max(a, b) == IF a >= b THEN a ELSE b
Min(a, b) == IF a <= b THEN a ELSE b

\* a limb sequence without its high zero limbs
RECURSIVE BigNorm(_)
BigNorm(a) ==
    IF a = <<>> THEN a
    ELSE IF a[Len(a)] = 0 THEN BigNorm(SubSeq(a, 1, Len(a) - 1)) ELSE a

RECURSIVE BigOfNat(_)
BigOfNat(n) == IF n = 0 THEN <<>> ELSE <<n % Base>> \o BigOfNat(n \div Base)

Limb(a, i) == IF i <= Len(a) THEN a[i] ELSE 0

RECURSIVE BigAddC(_, _, _, _)
BigAddC(a, b, i, c) ==
    IF i > Len(a) /\ i > Len(b)
    THEN (IF c = 0 THEN <<>> ELSE <<c>>)
    ELSE LET t == Limb(a, i) + Limb(b, i) + c
         IN  <<t % Base>> \o BigAddC(a, b, i + 1, t \div Base)

BigAdd(a, b) == BigAddC(a, b, 1, 0)

RECURSIVE BigSubC(_, _, _, _)
BigSubC(a, b, i, c) ==
    IF i > Len(a) THEN <<>>
    ELSE LET t == Limb(a, i) - Limb(b, i) - c
         IN  IF t < 0 THEN <<t + Base>> \o BigSubC(a, b, i + 1, 1)
             ELSE <<t>> \o BigSubC(a, b, i + 1, 0)

\* a - b, for a >= b
BigSub(a, b) == BigNorm(BigSubC(a, b, 1, 0))

RECURSIVE BigCmpAt(_, _, _)
BigCmpAt(a, b, i) ==
    IF i = 0 THEN 0
    ELSE IF a[i] < b[i] THEN -1
    ELSE IF a[i] > b[i] THEN 1
    ELSE BigCmpAt(a, b, i - 1)

\* -1, 0 or 1 as a is below, equal to or above b
BigCmp(a, b) ==
    IF Len(a) < Len(b) THEN -1
    ELSE IF Len(a) > Len(b) THEN 1
    ELSE BigCmpAt(a, b, Len(a))

\* (BigLeStrict: the bound left out; BigLeByLength: only the limb counts compared)
BigLeStrict(a, b) == BigCmp(a, b) < 0
BigLeByLength(a, b) == Len(a) <= Len(b)

BigLe(a, b) == BigCmp(a, b) <= 0
BigLt(a, b) == BigCmp(a, b) < 0

RECURSIVE BigMulSmallC(_, _, _, _)
BigMulSmallC(a, k, i, c) ==
    IF i > Len(a) THEN (IF c = 0 THEN <<>> ELSE <<c>>)
    ELSE LET t == a[i] * k + c
         IN  <<t % Base>> \o BigMulSmallC(a, k, i + 1, t \div Base)

\* a * k, for 0 <= k < Base
BigMulSmall(a, k) == IF k = 0 THEN <<>> ELSE BigMulSmallC(a, k, 1, 0)

RECURSIVE BigMulAt(_, _, _)
BigMulAt(a, b, j) ==
    IF j > Len(b) THEN <<>>
    ELSE BigAdd(BigMulSmall(a, b[j]), <<0>> \o BigMulAt(a, b, j + 1))

BigMul(a, b) == BigNorm(BigMulAt(a, b, 1))

\* <<quotient limbs, remainder>> of a by k, for 0 < k < Base
RECURSIVE BigDivSmallAt(_, _, _, _)
BigDivSmallAt(a, k, i, r) ==
    IF i = 0 THEN <<<<>>, r>>
    ELSE LET t == r * Base + a[i]
             rest == BigDivSmallAt(a, k, i - 1, t % k)
         IN  <<rest[1] \o <<t \div k>>, rest[2]>>

\* <<quotient, remainder>> with the quotient's high zero limbs dropped
BigNormQuot(r) == <<BigNorm(r[1]), r[2]>>

BigDivSmall(a, k) == BigNormQuot(BigDivSmallAt(a, k, Len(a), 0))

\* w with n zero limbs below it
BigShlLimbs(w, n) == IF w = <<>> THEN w ELSE [i \in 1..n |-> 0] \o w

BigShl(a, n) == BigShlLimbs(BigMulSmall(a, Pow2(n % LimbBits)), n \div LimbBits)

\* a without its k low limbs
BigShrLimbs(a, k) == IF k >= Len(a) THEN <<>> ELSE SubSeq(a, k + 1, Len(a))

BigShr(a, n) == BigDivSmall(BigShrLimbs(a, n \div LimbBits), Pow2(n % LimbBits))[1]

RECURSIVE NatBits(_)
NatBits(n) == IF n = 0 THEN 0 ELSE 1 + NatBits(n \div 2)

\* the number of bits of a
BigBits(a) == IF a = <<>> THEN 0 ELSE (Len(a) - 1) * LimbBits + NatBits(a[Len(a)])

\* bit i of a, bit 0 the lowest
BigBit(a, i) == (Limb(a, i \div LimbBits + 1) \div Pow2(i % LimbBits)) % 2

\* whether one of the n lowest bits of a is set
BigLowAny(a, n) ==
    \/ \E i \in 1..(n \div LimbBits) : Limb(a, i) # 0
    \/ Limb(a, n \div LimbBits + 1) % Pow2(n % LimbBits) # 0

\* the largest d <= guess with d * b <= r
RECURSIVE BigQuotFix(_, _, _)
BigQuotFix(r, b, guess) ==
    IF BigCmp(BigMulSmall(b, guess), r) <= 0 THEN guess ELSE BigQuotFix(r, b, guess - 1)

\* one quotient limb of r by b, b with its top limb's high bit set and
\* r < b * Base: the guess from the top limbs is at most 2 too large
BigQuotDigit(r, b) ==
    LET n == Len(b)
        top == Limb(r, n + 1) * Base + Limb(r, n)
    IN  BigQuotFix(r, b, Min(Base - 1, top \div b[n]))

\* the quotient limb d put above the quotient limbs of rest
BigDivModPut(rest, d) == <<rest[1] \o <<d>>, rest[2]>>

\* long division: limb i of a is brought down to the remainder r, the
\* quotient limb d of that is taken off, and the lower limbs follow
RECURSIVE BigDivModAt(_, _, _, _)
BigDivModDigit(a, b, i, t, d) ==
    IF d = 0 THEN BigDivModPut(BigDivModAt(a, b, i - 1, t), 0)
    ELSE BigDivModPut(BigDivModAt(a, b, i - 1, BigSub(t, BigMulSmall(b, d))), d)

BigDivModDown(a, b, i, t) == BigDivModDigit(a, b, i, t, BigQuotDigit(t, b))

BigDivModAt(a, b, i, r) ==
    IF i = 0 THEN <<<<>>, r>> ELSE BigDivModDown(a, b, i, BigNorm(<<a[i]>> \o r))

\* the remainder as a limb sequence
BigDivModOne(r) == <<r[1], BigOfNat(r[2])>>

\* the quotient without its high zero limbs, the remainder shifted back
BigDivModBack(r, sh) == <<BigNorm(r[1]), BigShr(r[2], sh)>>

\* a and b shifted left alike: b's top limb has its high bit set
BigDivModShifted(a, b, sh) == BigDivModBack(BigDivModAt(a, b, Len(a), <<>>), sh)

BigDivModLong(a, b, sh) == BigDivModShifted(BigShl(a, sh), BigShl(b, sh), sh)

\* <<quotient, remainder>> of a by b > 0
BigDivMod(a, b) ==
    IF Len(b) = 1 THEN BigDivModOne(BigDivSmall(a, b[1]))
    ELSE BigDivModLong(a, b, LimbBits - NatBits(b[Len(b)]))

(***************************************************************************)
(* f64: IEEE-754 binary64, round to nearest, ties to even                  *)
(***************************************************************************)
MantBits == 53
MinExp == -1074
MaxExp == 1023

F64NaN == [k |-> "nan", s |-> 0, m |-> <<>>, e |-> 0]
F64Inf(s) == [k |-> "inf", s |-> s, m |-> <<>>, e |-> 0]
F64Zero(s) == [k |-> "fin", s |-> s, m |-> <<>>, e |-> 0]

IsNaN(a) == a.k = "nan"
IsZero(a) == a.k = "fin" /\ a.m = <<>>

RECURSIVE NatTz(_)
NatTz(n) == IF n % 2 = 1 THEN 0 ELSE 1 + NatTz(n \div 2)

\* the number of low zero bits of a > 0
RECURSIVE BigTz(_, _)
BigTz(a, i) == IF a[i] = 0 THEN LimbBits + BigTz(a, i + 1) ELSE NatTz(a[i])

\* the finite value (-1)^s * M * 2^E, M > 0, with its mantissa made odd
F64Canon(s, M, E) ==
    LET tz == BigTz(M, 1) IN [k |-> "fin", s |-> s, m |-> BigShr(M, tz), e |-> E + tz]

F64Finish(s, M, E) ==
    IF M = <<>> THEN F64Zero(s)
    ELSE IF BigBits(M) + E - 1 > MaxExp THEN F64Inf(s)
    ELSE F64Canon(s, M, E)

\* q, or the next integer: q has lost its low bits, the highest of them
\* half, and low says whether anything was below that; ties go to even
BigRoundUp(q, half, low) ==
    IF half /\ (low \/ BigBit(q, 0) = 1) THEN BigAdd(q, <<1>>) ELSE q

\* M / 2^n (and a little more when sticky) rounded to the nearest integer
BigShrRoundSticky(M, n, sticky) ==
    IF n = 0 THEN M
    ELSE BigRoundUp(BigShr(M, n), BigBit(M, n - 1) = 1, sticky \/ BigLowAny(M, n - 1))

\* the drop lowest bits of M are rounded away
F64RoundDrop(s, M, E, sticky, drop) ==
    F64Finish(s, BigShrRoundSticky(M, drop, sticky), E + drop)

\* (-1)^s * (M * 2^E, and a little more when sticky) rounded to an f64
F64Round(s, M, E, sticky) ==
    F64RoundDrop(s, M, E, sticky, Max(Max(BigBits(M) - MantBits, MinExp - E), 0))

\* the bit position above the highest bit of a finite nonzero value
F64Top(a) == a.e + BigBits(a.m)

\* -1, 0, 1: the magnitudes of two finite nonzero values compared
F64MagCmp(a, b) ==
    IF F64Top(a) < F64Top(b) THEN -1
    ELSE IF F64Top(a) > F64Top(b) THEN 1
    ELSE LET e == Min(a.e, b.e)
         IN  BigCmp(BigShl(a.m, a.e - e), BigShl(b.m, b.e - e))

\* -1, 0, 1: two values that are not NaN compared (+0 and -0 are equal)
F64Cmp(a, b) ==
    LET sa == IF IsZero(a) THEN 0 ELSE IF a.s = 1 THEN -1 ELSE 1
        sb == IF IsZero(b) THEN 0 ELSE IF b.s = 1 THEN -1 ELSE 1
    IN  IF sa < sb THEN -1
        ELSE IF sa > sb THEN 1
        ELSE IF sa = 0 THEN 0
        ELSE IF a.k = "inf" THEN (IF b.k = "inf" THEN 0 ELSE sa)
        ELSE IF b.k = "inf" THEN -sa
        ELSE sa * F64MagCmp(a, b)

F64Lt(a, b) == ~IsNaN(a) /\ ~IsNaN(b) /\ F64Cmp(a, b) < 0
F64Le(a, b) == ~IsNaN(a) /\ ~IsNaN(b) /\ F64Cmp(a, b) <= 0
\* (F64GtOrEqual: the bound let in)
F64GtOrEqual(a, b) == F64Le(b, a)

F64Gt(a, b) == F64Lt(b, a)

F64Neg(a) == IF IsNaN(a) THEN a ELSE [a EXCEPT !.s = 1 - a.s]

\* the sum of (-1)^sa * Ma * 2^e and (-1)^sb * Mb * 2^e
F64AddAligned(sa, Ma, sb, Mb, e) ==
    IF sa = sb THEN F64Round(sa, BigAdd(Ma, Mb), e, FALSE)
    ELSE IF BigCmp(Ma, Mb) = 0 THEN F64Zero(0)
    ELSE IF BigCmp(Ma, Mb) > 0 THEN F64Round(sa, BigSub(Ma, Mb), e, FALSE)
    ELSE F64Round(sb, BigSub(Mb, Ma), e, FALSE)

F64AddFinite(a, b) ==
    LET e == Min(a.e, b.e)
    IN  F64AddAligned(a.s, BigShl(a.m, a.e - e), b.s, BigShl(b.m, b.e - e), e)

\* an operand more than 2^64 times smaller than the other is rounded away
F64Add(a, b) ==
    IF IsNaN(a) \/ IsNaN(b) THEN F64NaN
    ELSE IF a.k = "inf" THEN (IF b.k = "inf" /\ b.s # a.s THEN F64NaN ELSE a)
    ELSE IF b.k = "inf" THEN b
    ELSE IF IsZero(a) /\ IsZero(b) THEN F64Zero(IF a.s = 1 /\ b.s = 1 THEN 1 ELSE 0)
    ELSE IF IsZero(a) THEN b
    ELSE IF IsZero(b) THEN a
    ELSE IF F64Top(a) - F64Top(b) > 64 THEN a
    ELSE IF F64Top(b) - F64Top(a) > 64 THEN b
    ELSE F64AddFinite(a, b)

F64Sub(a, b) == F64Add(a, F64Neg(b))

F64Mul(a, b) ==
    LET s == (a.s + b.s) % 2
    IN  IF IsNaN(a) \/ IsNaN(b) THEN F64NaN
        ELSE IF a.k = "inf" \/ b.k = "inf"
        THEN (IF IsZero(a) \/ IsZero(b) THEN F64NaN ELSE F64Inf(s))
        ELSE IF IsZero(a) \/ IsZero(b) THEN F64Zero(s)
        ELSE F64Round(s, BigMul(a.m, b.m), a.e + b.e, FALSE)

\* the quotient dm[1] * 2^E rounded, sticky when a remainder dm[2] is left
F64DivRound(s, dm, E) == F64Round(s, dm[1], E, dm[2] # <<>>)

F64DivFinite(a, b) ==
    LET k == Max(0, MantBits + 3 + BigBits(b.m) - BigBits(a.m))
    IN  F64DivRound((a.s + b.s) % 2, BigDivMod(BigShl(a.m, k), b.m), a.e - b.e - k)

F64Div(a, b) ==
    LET s == (a.s + b.s) % 2
    IN  IF IsNaN(a) \/ IsNaN(b) THEN F64NaN
        ELSE IF a.k = "inf" THEN (IF b.k = "inf" THEN F64NaN ELSE F64Inf(s))
        ELSE IF b.k = "inf" THEN F64Zero(s)
        ELSE IF IsZero(b) THEN (IF IsZero(a) THEN F64NaN ELSE F64Inf(s))
        ELSE IF IsZero(a) THEN F64Zero(s)
        ELSE F64DivFinite(a, b)

\* f64::from of an integer of at most 32 bits: exact
F64FromInt(n) ==
    IF n = 0 THEN F64Zero(0)
    ELSE IF n < 0 THEN F64Canon(1, BigOfNat(-n), 0)
    ELSE F64Canon(0, BigOfNat(n), 0)

\* the f64 a decimal literal n/d denotes (n, d integers, d > 0)
F64Lit(n, d) == F64Div(F64FromInt(n), F64FromInt(d))

\* f64::min: the other operand when one is NaN
F64Min(a, b) ==
    IF IsNaN(a) THEN b ELSE IF IsNaN(b) THEN a ELSE IF F64Lt(b, a) THEN b ELSE a

\* f64::clamp, for lo <= hi: NaN stays NaN
F64Clamp(a, lo, hi) == IF F64Lt(a, lo) THEN lo ELSE IF F64Gt(a, hi) THEN hi ELSE a

(***************************************************************************)
(* std::time::Duration and the integer conversions                         *)
(***************************************************************************)
U64Max == BigSub(BigShl(<<1>>, 64), <<1>>)
\* (U32MaxSigned: the largest i32 taken for the largest u32)
U32MaxSigned == BigSub(BigShl(<<1>>, 31), <<1>>)

U32Max == BigSub(BigShl(<<1>>, 32), <<1>>)
NanosPerSec == BigOfNat(10^9)

BigToNat(a) == Limb(a, 1) + Limb(a, 2) * Base

\* a value, or the panic that unwinds the caller
Ok(v) == [ok |-> TRUE, v |-> v]
Panic == [ok |-> FALSE, v |-> <<>>]

DurationZERO == [secs |-> <<>>, nanos |-> 0]
from_secs(n) == [secs |-> n, nanos |-> 0]
\* (as_secs_rounded_up: a started second counted as a whole one)
as_secs_rounded_up(d) == IF d.nanos > 0 THEN BigAdd(d.secs, <<1>>) ELSE d.secs

as_secs(d) == d.secs

\* Ord for Duration: seconds, then nanoseconds
DurationLe(a, b) ==
    \/ BigLt(a.secs, b.secs)
    \/ a.secs = b.secs /\ a.nanos <= b.nanos

\* M / 2^n rounded to the nearest integer, ties to even
BigShrRound(M, n) == BigShrRoundSticky(M, n, FALSE)

\* whole seconds and the nanoseconds left, from <<seconds, nanoseconds>>
DurationOfDivMod(dm) == Ok([secs |-> dm[1], nanos |-> BigToNat(dm[2])])

\* Duration::from_secs_f64: panics on a negative, NaN, infinite or too large
\* value; the nanoseconds are rounded to nearest, ties to even
from_secs_f64(x) ==
    IF x.k # "fin" THEN Panic
    ELSE IF IsZero(x) THEN Ok(DurationZERO)
    ELSE IF x.s = 1 THEN Panic
    ELSE IF F64Top(x) > 64 THEN Panic
    ELSE IF x.e >= 0 THEN Ok(from_secs(BigShl(x.m, x.e)))
    ELSE DurationOfDivMod(BigDivMod(BigShrRound(BigMul(x.m, NanosPerSec), -x.e),
                                    NanosPerSec))

\* an i64 of the given sign and magnitude: zero is not negative
I64(neg, mag) == [neg |-> neg /\ mag # <<>>, mag |-> mag]

I64OfInt(n) == IF n < 0 THEN I64(TRUE, BigOfNat(-n)) ELSE I64(FALSE, BigOfNat(n))

I64Neg(a) == I64(~a.neg, a.mag)

I64Sub(a, b) ==
    IF a.neg # b.neg THEN I64(a.neg, BigAdd(a.mag, b.mag))
    ELSE IF BigLe(b.mag, a.mag) THEN I64(a.neg, BigSub(a.mag, b.mag))
    ELSE I64(~a.neg, BigSub(b.mag, a.mag))

I64Add(a, b) == I64Sub(a, I64Neg(b))

I64Lt(a, b) == I64Sub(a, b).neg
I64Le(a, b) == ~I64Lt(b, a)

I32Max == 2147483647
I32MinMag == BigAdd(BigOfNat(I32Max), <<1>>)

\* i32::try_from(value).unwrap_or(i32::MIN or i32::MAX, by the sign)
i32_or_bound(value) ==
    IF value.neg THEN (IF BigLe(value.mag, I32MinMag) THEN value ELSE I64(TRUE, I32MinMag))
    ELSE IF BigLe(value.mag, BigOfNat(I32Max)) THEN value
    ELSE I64(FALSE, BigOfNat(I32Max))

\* f64::from of an i32: exact
F64FromI32(value) ==
    IF value.mag = <<>> THEN F64Zero(0)
    ELSE F64Canon(IF value.neg THEN 1 ELSE 0, value.mag, 0)

usize_to_f64(value) == F64FromInt(value)

\* (i64_to_f64_exact: the seconds converted without a bound)
i64_to_f64_exact(value) == F64FromI32(value)

i64_to_f64(value) == F64FromI32(i32_or_bound(value))

\* u64::try_from(value).unwrap_or(0)
u64_or_zero(value) == IF value.neg THEN <<>> ELSE value.mag

\* chrono: a DateTime from its milliseconds, the TimeDelta between two
\* DateTimes, and TimeDelta::num_seconds and num_minutes, both truncated
\* toward zero
DateTime(millis) == I64OfInt(millis)
signed_duration_since(a, b) == I64Sub(a, b)
TruncDiv(a, b) == I64(a.neg, BigDivSmall(a.mag, b)[1])
num_seconds(delta) == TruncDiv(delta, 1000)
num_minutes(delta) == TruncDiv(num_seconds(delta), 60)

(***************************************************************************)
(* ForecastConfig                                                          *)
(***************************************************************************)
F64_0 == F64Zero(0)
F64_1 == F64FromInt(1)
F64_10 == F64FromInt(10)
F64_60 == F64FromInt(60)
F64_100 == F64FromInt(100)
F64_0_1 == F64Lit(1, 10)
F64_0_99 == F64Lit(99, 100)
F64_0_7 == F64Lit(7, 10)

DefaultConfig ==
    [swap_now_threshold_secs |-> BigOfNat(300),
     prepare_swap_threshold_secs |-> BigOfNat(600),
     slow_down_threshold_secs |-> BigOfNat(1800),
     high_velocity_threshold |-> F64_1,
     slow_down_factor |-> F64_0_7]

(***************************************************************************)
(* RateLimitForecaster                                                     *)
(***************************************************************************)
None == [some |-> FALSE, t |-> <<>>]
Some(t) == [some |-> TRUE, t |-> t]

First(seq) == seq[1]
Last(seq) == seq[Len(seq)]

\* (velocity_over_divided: less than a minute of data divided like the rest)
velocity_over_divided(usage_diff, time_diff) == F64Div(usage_diff, F64Div(time_diff, F64_60))

\* usage_diff over time_diff seconds, in percent per minute: the plain
\* difference when there is less than a minute of data
velocity_over(usage_diff, time_diff) ==
    IF F64Lt(time_diff, F64_60) THEN usage_diff
    ELSE F64Div(usage_diff, F64Div(time_diff, F64_60))

\* (velocity_between_reversed: the first sample's usage less the last's)
velocity_between_reversed(first, last) ==
    velocity_over(F64Sub(first.used_percent, last.used_percent),
                  i64_to_f64(num_seconds(signed_duration_since(last.collected_at,
                                                                first.collected_at))))

velocity_between(first, last) ==
    velocity_over(F64Sub(last.used_percent, first.used_percent),
                  i64_to_f64(num_seconds(signed_duration_since(last.collected_at,
                                                                first.collected_at))))

\* (calculate_velocity_from_one: only the empty list has no velocity)
calculate_velocity_from_one(ss) ==
    IF Len(ss) < 1 THEN F64_0 ELSE velocity_between(First(ss), Last(ss))

calculate_velocity(ss) ==
    IF Len(ss) < 2 THEN F64_0 ELSE velocity_between(First(ss), Last(ss))

\* (SentinelSecsShort: a sentinel of 10^9 seconds)
SentinelSecsShort == BigOfNat(10^9)

\* u64::MAX / 2
SentinelSecs == BigDivSmall(U64Max, 2)[1]

\* the time the remaining percent last at a velocity above zero
time_to_use(remaining, velocity) ==
    IF F64Le(remaining, F64_0) THEN Ok(DurationZERO)
    ELSE from_secs_f64(F64Mul(F64Div(remaining, velocity), F64_60))

\* (calculate_time_to_limit_usage_first: the usage looked at before the
\* velocity)
calculate_time_to_limit_usage_first(current_usage, velocity) ==
    IF F64Le(F64Sub(F64_100, current_usage), F64_0) THEN Ok(DurationZERO)
    ELSE IF F64Le(velocity, F64_0) THEN Ok(from_secs(SentinelSecs))
    ELSE from_secs_f64(F64Mul(F64Div(F64Sub(F64_100, current_usage), velocity), F64_60))

calculate_time_to_limit(current_usage, velocity) ==
    IF F64Le(velocity, F64_0) THEN Ok(from_secs(SentinelSecs))
    ELSE time_to_use(F64Sub(F64_100, current_usage), velocity)

RECURSIVE F64Sum(_, _)
F64Sum(values, i) ==
    IF i = 0 THEN F64_0 ELSE F64Add(F64Sum(values, i - 1), values[i])

\* values.iter().sum() / n
F64Mean(values, n) == F64Div(F64Sum(values, Len(values)), n)

\* powi(2)
F64Square(d) == F64Mul(d, d)

\* (v - mean).powi(2) of every value
SquaredDiffs(values, mean) ==
    [i \in 1..Len(values) |-> F64Square(F64Sub(values[i], mean))]

variance_of(values, n) == F64Mean(SquaredDiffs(values, F64Mean(values, n)), n)

calculate_variance(values) ==
    IF values = <<>> THEN F64_0 ELSE variance_of(values, usize_to_f64(Len(values)))

\* filter_map: the velocity of a window more than zero minutes long, or nothing
WindowVelocityOver(usage_diff, minutes) ==
    IF F64Gt(minutes, F64_0) THEN <<F64Div(usage_diff, minutes)>> ELSE <<>>

WindowVelocity(w0, w1) ==
    WindowVelocityOver(F64Sub(w1.used_percent, w0.used_percent),
                       F64Div(i64_to_f64(num_seconds(signed_duration_since(
                                  w1.collected_at, w0.collected_at))), F64_60))

\* the velocities of the adjacent pairs more than zero minutes apart
RECURSIVE WindowVelocities(_, _)
WindowVelocities(ss, i) ==
    IF i >= Len(ss) THEN <<>>
    ELSE WindowVelocity(ss[i], ss[i + 1]) \o WindowVelocities(ss, i + 1)

\* (sample_factor_uncapped: the factor growing past 10 samples)
sample_factor_uncapped(ss) == F64Div(usize_to_f64(Len(ss)), F64_10)

sample_factor(ss) == F64Min(F64Div(usize_to_f64(Len(ss)), F64_10), F64_1)

variance(velocities) ==
    IF velocities = <<>> THEN F64_1 ELSE calculate_variance(velocities)

consistency_factor(ss) ==
    F64Div(F64_1, F64Add(F64_1, variance(WindowVelocities(ss, 1))))

recency_factor(last, clock) ==
    F64Div(F64_1, F64Add(F64_1, F64Div(i64_to_f64(num_minutes(signed_duration_since(
                                           clock, last.collected_at))), F64_10)))

calculate_confidence(ss, clock) ==
    IF ss # <<>>
    THEN F64Clamp(F64Mul(F64Mul(sample_factor(ss), consistency_factor(ss)),
                         recency_factor(Last(ss), clock)),
                  F64_0_1, F64_0_99)
    ELSE F64_0_1

\* u32::try_from(n).unwrap_or(u32::MAX)
u32_or_max(n) == IF BigLe(n, U32Max) THEN n ELSE U32Max

determine_action(cfg, time_to_limit, velocity) ==
    LET secs == as_secs(time_to_limit)
    IN  IF secs = <<>> THEN [type |-> "EmergencyPause"]
        ELSE IF BigLe(secs, cfg.swap_now_threshold_secs)
        THEN [type |-> "SwapNow", to_account |-> ""]
        ELSE IF BigLe(secs, cfg.prepare_swap_threshold_secs)
        THEN [type |-> "PrepareSwap", in_minutes |-> u32_or_max(BigDivSmall(secs, 60)[1])]
        ELSE IF BigLe(secs, cfg.slow_down_threshold_secs)
                /\ F64Gt(velocity, cfg.high_velocity_threshold)
        THEN [type |-> "SlowDown",
              target_velocity |-> F64Mul(velocity, cfg.slow_down_factor)]
        ELSE [type |-> "Continue"]

\* chrono: the Unix time of the model's time origin, and the last second a
\* DateTime<Utc> can hold (+262142-12-31T23:59:59Z)
OriginUnixSecs == BigOfNat(1762300800)
MaxUnixSecs == BigAdd(BigMul(BigOfNat(8210266), BigOfNat(10^6)), BigOfNat(876799))

\* the first millisecond beyond the last DateTime, from the model's origin
EndOfTime ==
    I64(FALSE, BigMul(BigSub(BigAdd(MaxUnixSecs, <<1>>), OriginUnixSecs), BigOfNat(1000)))

\* a DateTime, or the panic of going beyond the last one
DateTimeOrPanic(at) == IF I64Lt(at, EndOfTime) THEN Ok(at) ELSE Panic

\* Utc::now() + chrono::Duration::seconds(secs): panics when the sum is
\* beyond the last DateTime
DateTimePlusSecs(clock, secs) ==
    DateTimeOrPanic(I64Add(clock, I64(FALSE, BigMul(secs, BigOfNat(1000)))))

\* Some(at), or the panic of the addition
SomeOrPanic(at) == IF at.ok THEN Ok(Some(at.v)) ELSE Panic

\* (reset_first_if_later: the reset counted when it comes after the limit)
reset_first_if_later(time_to_limit, resets_at, clock) ==
    /\ resets_at.some
    /\ I64Lt(clock, resets_at.t)
    /\ BigLt(as_secs(time_to_limit),
             u64_or_zero(num_seconds(signed_duration_since(resets_at.t, clock))))

\* whether the reset comes before the limit is hit
reset_first(time_to_limit, resets_at, clock) ==
    /\ resets_at.some
    /\ I64Lt(clock, resets_at.t)
    /\ BigLt(u64_or_zero(num_seconds(signed_duration_since(resets_at.t, clock))),
             as_secs(time_to_limit))

\* (calculate_optimal_swap_time_unguarded: no look at zero or the sentinel)
calculate_optimal_swap_time_unguarded(time_to_limit, resets_at, clock) ==
    IF reset_first(time_to_limit, resets_at, clock) THEN Ok(None)
    ELSE SomeOrPanic(DateTimePlusSecs(clock,
             BigSub(as_secs(time_to_limit), BigDivSmall(as_secs(time_to_limit), 5)[1])))

calculate_optimal_swap_time(time_to_limit, resets_at, clock) ==
    LET secs_to_limit == as_secs(time_to_limit)
    IN  IF reset_first(time_to_limit, resets_at, clock) THEN Ok(None)
        ELSE IF secs_to_limit = <<>>
                \/ BigLt(BigSub(SentinelSecs, BigOfNat(1000)), secs_to_limit)
        THEN Ok(None)
        ELSE SomeOrPanic(DateTimePlusSecs(clock,
                 BigSub(secs_to_limit, BigDivSmall(secs_to_limit, 5)[1])))

\* Ok(Ok(forecast)), Ok(Err) for OracleError::InsufficientData, or Panic
Err == [ok |-> FALSE, v |-> "InsufficientData"]

\* (RateLimitForecastWithTarget: the account itself listed as alternative)
RateLimitForecastWithTarget(key, usage, velocity, time_to_limit, confidence, action, swap_time) ==
    IF ~swap_time.ok THEN Panic
    ELSE Ok(Ok([provider |-> key[1],
                account |-> key[2],
                current_usage_pct |-> usage,
                current_velocity |-> velocity,
                time_to_limit |-> time_to_limit,
                confidence |-> confidence,
                recommended_action |-> action,
                optimal_swap_time |-> swap_time.v,
                alternative_accounts |-> <<<<key[2], F64Sub(F64_100, usage)>>>>]))

\* Ok(RateLimitForecast { .. }), unless computing the swap time panicked
RateLimitForecast(key, usage, velocity, time_to_limit, confidence, action, swap_time) ==
    IF ~swap_time.ok THEN Panic
    ELSE Ok(Ok([provider |-> key[1],
                account |-> key[2],
                current_usage_pct |-> usage,
                current_velocity |-> velocity,
                time_to_limit |-> time_to_limit,
                confidence |-> confidence,
                recommended_action |-> action,
                optimal_swap_time |-> swap_time.v,
                alternative_accounts |-> <<>>]))

\* the rest of forecast_single once time_to_limit is computed, or panicked
forecast_with(cfg, key, ss, clock, current, velocity, time_to_limit) ==
    IF ~time_to_limit.ok THEN Panic
    ELSE RateLimitForecast(key, current.used_percent, velocity, time_to_limit.v,
             calculate_confidence(ss, clock),
             determine_action(cfg, time_to_limit.v, velocity),
             calculate_optimal_swap_time(time_to_limit.v, current.resets_at, clock))

\* the rest of forecast_single once the velocity is computed
forecast_at(cfg, key, ss, clock, current, velocity) ==
    forecast_with(cfg, key, ss, clock, current, velocity,
                  calculate_time_to_limit(current.used_percent, velocity))

\* (forecast_single_of_oldest: the current state taken from the first sample)
forecast_single_of_oldest(cfg, key, ss, clock) ==
    IF ss = <<>> THEN Ok(Err)
    ELSE forecast_at(cfg, key, ss, clock, First(ss), calculate_velocity(ss))

forecast_single(cfg, key, ss, clock) ==
    IF ss = <<>> THEN Ok(Err)
    ELSE forecast_at(cfg, key, ss, clock, Last(ss), calculate_velocity(ss))

AccountKey(sample) == <<sample.provider, sample.account>>

\* samples.sort_by_key(|s| s.collected_at): a stable sort, here by insertion
\* (InsertSampleBeforeEqual: a sample goes before those of its own time)
RECURSIVE InsertSampleBeforeEqual(_, _)
InsertSampleBeforeEqual(sorted, x) ==
    IF sorted = <<>> THEN <<x>>
    ELSE IF I64Lt(Last(sorted).collected_at, x.collected_at) THEN Append(sorted, x)
    ELSE Append(InsertSampleBeforeEqual(SubSeq(sorted, 1, Len(sorted) - 1), x), Last(sorted))

RECURSIVE InsertSample(_, _)
InsertSample(sorted, x) ==
    IF sorted = <<>> THEN <<x>>
    ELSE IF I64Le(Last(sorted).collected_at, x.collected_at) THEN Append(sorted, x)
    ELSE Append(InsertSample(SubSeq(sorted, 1, Len(sorted) - 1), x), Last(sorted))

RECURSIVE SortSamples(_)
SortSamples(seq) ==
    IF seq = <<>> THEN <<>>
    ELSE InsertSample(SortSamples(SubSeq(seq, 1, Len(seq) - 1)), Last(seq))

\* forecasts.sort_by_key(|f| f.time_to_limit): a stable sort, here by insertion
\* (InsertForecastLast: a forecast always goes to the end)
InsertForecastLast(sorted, x) == Append(sorted, x)

RECURSIVE InsertForecast(_, _)
InsertForecast(sorted, x) ==
    IF sorted = <<>> THEN <<x>>
    ELSE IF DurationLe(Last(sorted).time_to_limit, x.time_to_limit) THEN Append(sorted, x)
    ELSE Append(InsertForecast(SubSeq(sorted, 1, Len(sorted) - 1), x), Last(sorted))

\* (SortForecastsSkipped: the forecasts left in the order collected)
SortForecastsSkipped(seq) == seq

RECURSIVE SortForecasts(_)
SortForecasts(seq) ==
    IF seq = <<>> THEN <<>>
    ELSE InsertForecast(SortForecasts(SubSeq(seq, 1, Len(seq) - 1)), Last(seq))

\* the HashMap of the groups: each key's samples in input order, then
\* sorted by collected_at (sort_by_key is stable)
group_by_account(ss) ==
    [key \in {AccountKey(ss[i]) : i \in 1..Len(ss)} |->
        SortSamples(SelectSeq(ss, LAMBDA sample : AccountKey(sample) = key))]

\* the orders in which a HashMap may hand out its keys
IterationOrders(keys) ==
    {p \in [1..Cardinality(keys) -> keys] : \A i, j \in DOMAIN p : p[i] = p[j] => i = j}

\* forecast() with the HashMap iterating in the given order: the forecasts,
\* or the panic of the first group that panics
\* forecast_single of every group, in the order the HashMap hands them out
forecast_each(cfg, grouped, clock, order) ==
    [i \in 1..Len(order) |-> forecast_single(cfg, order[i], grouped[order[i]], clock)]

\* the forecasts of the results that are Ok
Forecasts(collected) == [i \in 1..Len(collected) |-> collected[i].v.v]

\* filter_map(.. .ok()).collect() and the sort, or the panic of a group
collect_sorted(results) ==
    IF \E i \in 1..Len(results) : ~results[i].ok THEN Panic
    ELSE Ok(SortForecasts(Forecasts(SelectSeq(results, LAMBDA r : r.ok /\ r.v.ok))))

forecast(cfg, ss, clock, order) ==
    collect_sorted(forecast_each(cfg, group_by_account(ss), clock, order))

(***************************************************************************)
(* rank_alternative_accounts                                               *)
(***************************************************************************)
\* HashMap::new()
NoAccounts == [account \in {} |-> F64_0]

\* or_insert(sample.used_percent)
InsertUsage(accounts, account, used_percent) ==
    [a \in DOMAIN accounts \cup {account} |->
        IF a = account THEN used_percent ELSE accounts[a]]

\* and_modify: the usage kept gives way to a greater one
ModifyUsage(accounts, account, used_percent) ==
    IF F64Gt(used_percent, accounts[account])
    THEN [accounts EXCEPT ![account] = used_percent]
    ELSE accounts

\* (ConsiderSampleOfAnyProvider: the provider not looked at)
ConsiderSampleOfAnyProvider(accounts, sample, current_provider, current_account) ==
    IF sample.account # current_account
    THEN (IF sample.account \in DOMAIN accounts
          THEN ModifyUsage(accounts, sample.account, sample.used_percent)
          ELSE InsertUsage(accounts, sample.account, sample.used_percent))
    ELSE accounts

\* the body of the loop: a sample of the same provider and another account
\* is entered or compared, any other sample is passed over
ConsiderSample(accounts, sample, current_provider, current_account) ==
    IF sample.provider = current_provider /\ sample.account # current_account
    THEN (IF sample.account \in DOMAIN accounts
          THEN ModifyUsage(accounts, sample.account, sample.used_percent)
          ELSE InsertUsage(accounts, sample.account, sample.used_percent))
    ELSE accounts

\* the accounts map after the first i samples
RECURSIVE AccountsAfter(_, _, _, _)
AccountsAfter(ss, i, current_provider, current_account) ==
    IF i = 0 THEN NoAccounts
    ELSE ConsiderSample(AccountsAfter(ss, i - 1, current_provider, current_account),
                        ss[i], current_provider, current_account)

\* map(|(account, usage)| (account, 100.0 - usage)), the map iterated in
\* the given order
Headrooms(accounts, order) ==
    [i \in 1..Len(order) |-> <<order[i], F64Sub(F64_100, accounts[order[i]])>>]

\* filter(|(_, headroom)| *headroom > 10.0)
HasHeadroom(alternative) == F64Gt(alternative[2], F64_10)

\* (InsertAlternativeLast: an alternative always goes to the end)
InsertAlternativeLast(sorted, x) == Append(sorted, x)

\* sort_by(|a, b| b.1.partial_cmp(&a.1).unwrap_or(Equal)): a stable sort,
\* here by insertion; x goes before the alternatives of less headroom
RECURSIVE InsertAlternative(_, _)
InsertAlternative(sorted, x) ==
    IF sorted = <<>> THEN <<x>>
    ELSE IF ~F64Lt(Last(sorted)[2], x[2]) THEN Append(sorted, x)
    ELSE Append(InsertAlternative(SubSeq(sorted, 1, Len(sorted) - 1), x), Last(sorted))

RECURSIVE SortAlternatives(_)
SortAlternatives(seq) ==
    IF seq = <<>> THEN <<>>
    ELSE InsertAlternative(SortAlternatives(SubSeq(seq, 1, Len(seq) - 1)), Last(seq))

\* the alternatives of the accounts map, the map iterated in the given order
alternatives(accounts, order) ==
    SortAlternatives(SelectSeq(Headrooms(accounts, order), HasHeadroom))

\* rank_alternative_accounts with the HashMap iterating in the given order
\* (a sequence of the accounts entered)
rank_alternative_accounts(ss, current_provider, current_account, order) ==
    alternatives(AccountsAfter(ss, Len(ss), current_provider, current_account), order)

(***************************************************************************)
(* The forecaster in use: a caller collects samples, time passes, and the  *)
(* caller asks for forecasts                                               *)
(***************************************************************************)
MaxSamples == 3
MaxTicks == 1
MaxCalls == 2

\* one tick of the wall clock, and the clock at the start (milliseconds)
TickMillis == 60000
StartMillis == 660000

UsageSample(provider, account, used_percent, collected_at, resets_at) ==
    [provider |-> provider, account |-> account, used_percent |-> used_percent,
     collected_at |-> collected_at, resets_at |-> resets_at]

\* the samples a caller may hand over: one account climbing fast with a
\* reset due, and the same account name under another provider creeping up
SampleUniverse ==
    {UsageSample("openai", "a", F64FromInt(50), DateTime(0), None),
     UsageSample("openai", "a", F64FromInt(80), DateTime(600000), Some(DateTime(1100000))),
     UsageSample("claude", "a", F64_0, DateTime(0), None),
     UsageSample("claude", "a", F64Lit(1, 10^9), DateTime(600000), None)}

\* a forecaster built by with_config
CustomConfig ==
    [swap_now_threshold_secs |-> BigOfNat(60),
     prepare_swap_threshold_secs |-> BigOfNat(120),
     slow_down_threshold_secs |-> BigOfNat(7200),
     high_velocity_threshold |-> F64Lit(1, 2),
     slow_down_factor |-> F64Lit(1, 2)]

Configs == {DefaultConfig, CustomConfig}

NotCalled == [called |-> FALSE]

\* Utc::now()
UtcNow == DateTime(now)

Init ==
    /\ config \in Configs
    /\ now = StartMillis
    /\ samples = <<>>
    /\ calls = 0
    /\ out = NotCalled
    /\ prev = NotCalled
    /\ call = NotCalled

\* the caller's list grows by a sample it did not hold yet
AddSample ==
    /\ Len(samples) < MaxSamples
    /\ \E sample \in SampleUniverse :
          /\ \A i \in 1..Len(samples) : samples[i] # sample
          /\ samples' = Append(samples, sample)
    /\ calls' = 0
    /\ out' = NotCalled
    /\ prev' = NotCalled
    /\ UNCHANGED <<config, now, call>>

\* the wall clock moves on
Tick ==
    /\ now < StartMillis + MaxTicks * TickMillis
    /\ now' = now + TickMillis
    /\ UNCHANGED <<config, samples, calls, out, prev, call>>

\* forecaster.forecast(samples), the HashMap iterating in some order; out is
\* this invocation, prev the one before it on the same list
Forecast ==
    /\ calls < MaxCalls
    /\ calls' = calls + 1
    /\ \E order \in IterationOrders(DOMAIN group_by_account(samples)) :
          out' = [called |-> TRUE, at |-> now, order |-> order,
                  result |-> forecast(config, samples, UtcNow, order)]
    /\ prev' = out
    /\ UNCHANGED <<config, now, samples, call>>

Next == AddSample \/ Tick \/ Forecast

Spec == Init /\ [][Next]_vars
(***************************************************************************)
(* forecast(): its output                                                  *)
(***************************************************************************)
Returned(o) == o.called /\ o.result.ok

Keys(ss) == {AccountKey(ss[i]) : i \in 1..Len(ss)}

ForecastKey(f) == <<f.provider, f.account>>

DurationLt(a, b) == DurationLe(a, b) /\ a # b

\* the place of a key in an iteration order
Position(order, key) == CHOOSE i \in DOMAIN order : order[i] = key

\* C1: the list forecast returns is sorted by non-decreasing time_to_limit:
\* of two adjacent forecasts the earlier one's time_to_limit is less than
\* or equal to the later one's
C1_SortedByTimeToLimit ==
    Returned(out) =>
        \A i \in 1..(Len(out.result.v) - 1) :
            DurationLe(out.result.v[i].time_to_limit, out.result.v[i + 1].time_to_limit)

\* forecast returned two forecasts of different time_to_limit whose groups
\* the HashMap had handed out the other way round
C1_Witness ==
    /\ Returned(out)
    /\ \E i, j \in DOMAIN out.result.v :
          /\ i < j
          /\ DurationLt(out.result.v[i].time_to_limit, out.result.v[j].time_to_limit)
          /\ Position(out.order, ForecastKey(out.result.v[j]))
                 < Position(out.order, ForecastKey(out.result.v[i]))

\* C2: forecast(samples) never fails as a whole and returns exactly one
\* forecast for each distinct (provider, account) pair of samples and none
\* for any other pair
C2_OneForecastPerAccount ==
    out.called =>
        /\ out.result.ok
        /\ Len(out.result.v) = Cardinality(Keys(samples))
        /\ \A key \in Keys(samples) :
              \E i \in DOMAIN out.result.v : ForecastKey(out.result.v[i]) = key

\* a forecast without the two fields computed from the wall clock
ClockFree(f) ==
    [provider |-> f.provider, account |-> f.account,
     current_usage_pct |-> f.current_usage_pct, current_velocity |-> f.current_velocity,
     time_to_limit |-> f.time_to_limit, recommended_action |-> f.recommended_action,
     alternative_accounts |-> f.alternative_accounts]

\* C3 as stated: two invocations of forecast on the same forecaster with the
\* same sample list return the same forecasts, every field equal and in the
\* same order, whatever happened in between
C3_SameForecasts ==
    (out.called /\ prev.called) => out.result = prev.result

\* C3: two invocations of forecast on the same forecaster with the same
\* sample list that both return give the same forecasts but for confidence
\* and optimal_swap_time, which follow the wall clock, and the same sequence
\* of time_to_limit; forecasts of equal time_to_limit may change places
C3_SameUpToClockAndTies ==
    (Returned(out) /\ Returned(prev)) =>
        /\ Len(out.result.v) = Len(prev.result.v)
        /\ \A i \in DOMAIN out.result.v :
              out.result.v[i].time_to_limit = prev.result.v[i].time_to_limit
        /\ {ClockFree(out.result.v[i]) : i \in DOMAIN out.result.v}
               = {ClockFree(prev.result.v[i]) : i \in DOMAIN prev.result.v}

\* two invocations a tick apart returned forecasts of the same account that
\* differ in confidence and in optimal_swap_time
C3_Witness ==
    /\ Returned(out) /\ Returned(prev)
    /\ out.at # prev.at
    /\ \E i \in DOMAIN out.result.v, j \in DOMAIN prev.result.v :
          /\ ClockFree(out.result.v[i]) = ClockFree(prev.result.v[j])
          /\ out.result.v[i].confidence # prev.result.v[j].confidence
          /\ out.result.v[i].optimal_swap_time # prev.result.v[j].optimal_swap_time
(***************************************************************************)
(* determine_action on its own: a forecaster of some config is asked for   *)
(* the action of a time_to_limit and a velocity                            *)
(***************************************************************************)
\* thresholds that break the order the decision table assumes
UnorderedConfig ==
    [swap_now_threshold_secs |-> BigOfNat(600),
     prepare_swap_threshold_secs |-> BigOfNat(300),
     slow_down_threshold_secs |-> BigOfNat(120),
     high_velocity_threshold |-> F64_1,
     slow_down_factor |-> F64_0_7]

\* thresholds as far out as a u64 goes
FarConfig ==
    [swap_now_threshold_secs |-> BigOfNat(300),
     prepare_swap_threshold_secs |-> SentinelSecs,
     slow_down_threshold_secs |-> U64Max,
     high_velocity_threshold |-> F64_1,
     slow_down_factor |-> F64_0_7]

ZeroConfig ==
    [swap_now_threshold_secs |-> <<>>,
     prepare_swap_threshold_secs |-> <<>>,
     slow_down_threshold_secs |-> <<>>,
     high_velocity_threshold |-> F64_0,
     slow_down_factor |-> F64_0]

ActionConfigs == {DefaultConfig, CustomConfig, UnorderedConfig, FarConfig, ZeroConfig}

\* whole seconds at, just under and just over the thresholds in use, and the
\* far end of the range
ThresholdSecs == {0, 60, 120, 300, 480, 600, 1200, 1800, 7200}

DurationSecs ==
    {BigOfNat(t + d) : t \in ThresholdSecs, d \in {0, 1}}
        \cup {BigOfNat(t - 1) : t \in ThresholdSecs \ {0}}
        \cup {BigMul(BigOfNat(10^6), BigOfNat(10^6)), SentinelSecs, U64Max}

Durations == {[secs |-> secs, nanos |-> nanos] : secs \in DurationSecs, nanos \in {0, 500000000}}

Velocities ==
    {F64_0, F64Lit(1, 2), F64_1, F64Lit(3, 2), F64FromInt(2), F64FromInt(-1),
     F64NaN, F64Inf(0)}

InitDetermineAction ==
    /\ config \in ActionConfigs
    /\ now = StartMillis
    /\ samples = <<>>
    /\ calls = 0
    /\ out = NotCalled
    /\ prev = NotCalled
    /\ call = NotCalled

\* self.determine_action(time_to_limit, velocity)
DetermineAction ==
    /\ \E time_to_limit \in Durations, velocity \in Velocities :
          /\ call' = [called |-> TRUE, time_to_limit |-> time_to_limit,
                      velocity |-> velocity]
          /\ out' = [called |-> TRUE,
                     result |-> determine_action(config, time_to_limit, velocity)]
    /\ UNCHANGED <<config, now, samples, calls, prev>>

NextDetermineAction == DetermineAction

SpecDetermineAction == InitDetermineAction /\ [][NextDetermineAction]_vars

\* the whole seconds of the time_to_limit asked about: determine_action reads
\* a Duration in whole seconds, so that one under a second counts as zero
AskedSecs == call.time_to_limit.secs

SecsOver(threshold) == BigCmp(AskedSecs, threshold) > 0

VelocityOver(threshold) ==
    /\ ~IsNaN(call.velocity) /\ ~IsNaN(threshold)
    /\ F64Cmp(call.velocity, threshold) > 0

\* the order of the thresholds the decision table assumes
ThresholdsOrdered ==
    /\ BigCmp(config.swap_now_threshold_secs, config.prepare_swap_threshold_secs) < 0
    /\ BigCmp(config.prepare_swap_threshold_secs, config.slow_down_threshold_secs) < 0

\* C4: determine_action returns EmergencyPause exactly when time_to_limit is
\* zero seconds (in whole seconds), for every velocity and every config, the
\* thresholds having no say
C4_EmergencyPauseIffZeroSecs ==
    out.called => (out.result.type = "EmergencyPause" <=> AskedSecs = <<>>)

\* a zero time_to_limit under thresholds of zero, which the SwapNow row
\* would match as well, gave EmergencyPause
C4_Witness ==
    /\ out.called
    /\ call.time_to_limit = DurationZERO
    /\ config = ZeroConfig
    /\ out.result = [type |-> "EmergencyPause"]

\* C5: for every velocity determine_action returns SwapNow when time_to_limit
\* is over zero and at most swap_now_threshold_secs (in whole seconds); with
\* the default config 300 seconds give SwapNow and 301 seconds do not
C5_SwapNowUpToThreshold ==
    out.called =>
        /\ (AskedSecs # <<>> /\ ~SecsOver(config.swap_now_threshold_secs))
               => out.result = [type |-> "SwapNow", to_account |-> ""]
        /\ (config = DefaultConfig /\ AskedSecs = BigOfNat(301))
               => out.result.type # "SwapNow"

\* exactly 300 seconds under the default config gave SwapNow
C5_Witness ==
    /\ out.called
    /\ config = DefaultConfig
    /\ call.time_to_limit = from_secs(BigOfNat(300))
    /\ out.result = [type |-> "SwapNow", to_account |-> ""]

\* seconds / 60, rounded down
WholeMinutes(secs) == BigDivMod(secs, <<60>>)[1]

InPrepareBand ==
    /\ SecsOver(config.swap_now_threshold_secs)
    /\ ~SecsOver(config.prepare_swap_threshold_secs)

\* C6 as stated: for every velocity determine_action returns
\* PrepareSwap{in_minutes} when time_to_limit is over swap_now_threshold_secs
\* and at most prepare_swap_threshold_secs, in_minutes the whole minutes of
\* time_to_limit
C6_PrepareSwapWholeMinutes ==
    (out.called /\ InPrepareBand)
        => out.result = [type |-> "PrepareSwap", in_minutes |-> WholeMinutes(AskedSecs)]

\* C6: for every velocity determine_action returns PrepareSwap{in_minutes}
\* when time_to_limit is over swap_now_threshold_secs and at most
\* prepare_swap_threshold_secs (in whole seconds), in_minutes the whole
\* minutes of time_to_limit, or 4294967295 when there are more
C6_PrepareSwapSaturating ==
    (out.called /\ InPrepareBand)
        => LET minutes == WholeMinutes(AskedSecs)
               most == BigMul(BigOfNat(65536), BigOfNat(65536))
           IN  out.result =
                   [type |-> "PrepareSwap",
                    in_minutes |-> IF BigCmp(minutes, most) < 0 THEN minutes
                                   ELSE BigSub(most, <<1>>)]

\* 480 seconds under the default config gave PrepareSwap in 8 minutes
C6_Witness ==
    /\ out.called
    /\ config = DefaultConfig
    /\ AskedSecs = BigOfNat(480)
    /\ out.result = [type |-> "PrepareSwap", in_minutes |-> <<8>>]

InSlowDownBand ==
    /\ SecsOver(config.prepare_swap_threshold_secs)
    /\ ~SecsOver(config.slow_down_threshold_secs)

\* C7: with thresholds in the order the decision table assumes,
\* determine_action returns SlowDown{target_velocity} exactly when
\* time_to_limit is over prepare_swap_threshold_secs and at most
\* slow_down_threshold_secs (in whole seconds) and velocity is strictly over
\* high_velocity_threshold; target_velocity is velocity * slow_down_factor
C7_SlowDownIffBandAndFast ==
    (out.called /\ ThresholdsOrdered) =>
        /\ out.result.type = "SlowDown"
               <=> (InSlowDownBand /\ VelocityOver(config.high_velocity_threshold))
        /\ out.result.type = "SlowDown"
               => out.result.target_velocity = F64Mul(call.velocity, config.slow_down_factor)

\* 1200 seconds at velocity 2.0 under the default config gave SlowDown to 1.4
C7_Witness ==
    /\ out.called
    /\ config = DefaultConfig
    /\ call.time_to_limit = from_secs(BigOfNat(1200))
    /\ call.velocity = F64FromInt(2)
    /\ out.result = [type |-> "SlowDown", target_velocity |-> F64Lit(14, 10)]

\* C8: with thresholds in the order the decision table assumes,
\* determine_action returns Continue in every case no earlier row matches:
\* when time_to_limit is over slow_down_threshold_secs, or over
\* prepare_swap_threshold_secs with velocity not over high_velocity_threshold;
\* the sentinel duration gives Continue under the default config for every
\* velocity
C8_ContinueOtherwise ==
    out.called =>
        /\ ThresholdsOrdered =>
              (out.result = [type |-> "Continue"]
                   <=> \/ SecsOver(config.slow_down_threshold_secs)
                       \/ /\ SecsOver(config.prepare_swap_threshold_secs)
                          /\ ~VelocityOver(config.high_velocity_threshold))
        /\ (config = DefaultConfig /\ AskedSecs = SentinelSecs)
               => out.result = [type |-> "Continue"]

\* the sentinel duration at a velocity over the threshold gave Continue under
\* the default config
C8_Witness ==
    /\ out.called
    /\ config = DefaultConfig
    /\ call.time_to_limit = from_secs(SentinelSecs)
    /\ VelocityOver(config.high_velocity_threshold)
    /\ out.result = [type |-> "Continue"]
(***************************************************************************)
(* calculate_time_to_limit on its own                                      *)
(***************************************************************************)
MaxUsageTens == 12
MaxVelocityHalves == 6

\* usages from 0 to over 100 in tens, and the odd ones
Usages ==
    {F64FromInt(10 * n) : n \in 0..MaxUsageTens}
        \cup {F64Lit(199, 2), F64Lit(1001, 10), F64FromInt(-10), F64NaN, F64Inf(0), F64Inf(1)}

\* velocities around zero in halves, and the odd ones: -0.0, the smallest
\* positive f64, NaN and the infinities
UsageVelocities ==
    {F64Lit(n, 2) : n \in (-MaxVelocityHalves)..MaxVelocityHalves}
        \cup {F64Zero(1), [k |-> "fin", s |-> 0, m |-> <<1>>, e |-> MinExp],
              F64NaN, F64Inf(0), F64Inf(1)}

InitTimeToLimit ==
    /\ config = DefaultConfig
    /\ now = StartMillis
    /\ samples = <<>>
    /\ calls = 0
    /\ out = NotCalled
    /\ prev = NotCalled
    /\ call = NotCalled

\* Self::calculate_time_to_limit(current_usage, velocity)
TimeToLimit ==
    /\ \E current_usage \in Usages, velocity \in UsageVelocities :
          /\ call' = [called |-> TRUE, current_usage |-> current_usage,
                      velocity |-> velocity]
          /\ out' = [called |-> TRUE,
                     result |-> calculate_time_to_limit(current_usage, velocity)]
    /\ UNCHANGED <<config, now, samples, calls, prev>>

NextTimeToLimit == TimeToLimit

SpecTimeToLimit == InitTimeToLimit /\ [][NextTimeToLimit]_vars

\* velocity <= 0.0 as an f64 comparison: false for NaN, true for -0.0
VelocityNotIncreasing ==
    ~IsNaN(call.velocity) /\ F64Cmp(call.velocity, F64_0) <= 0

\* current_usage >= 100.0 as an f64 comparison
UsageAtOrOverLimit ==
    ~IsNaN(call.current_usage) /\ F64Cmp(call.current_usage, F64_100) >= 0

\* C9: calculate_time_to_limit with velocity less than or equal to zero
\* returns a duration of more than 1,000,000,000 seconds, whatever
\* current_usage is
C9_SentinelWhenNotIncreasing ==
    (out.called /\ VelocityNotIncreasing)
        => out.result.ok /\ BigCmp(out.result.v.secs, BigOfNat(10^9)) > 0

\* a negative velocity at a usage of 50 gave more than 10^9 seconds
C9_Witness ==
    /\ out.called
    /\ call.velocity = F64FromInt(-1)
    /\ call.current_usage = F64FromInt(50)
    /\ out.result.ok
    /\ BigCmp(out.result.v.secs, BigOfNat(10^9)) > 0

\* C10: calculate_time_to_limit returns the zero duration whenever
\* current_usage is greater than or equal to 100
C10_ZeroAtOrOverLimit ==
    (out.called /\ UsageAtOrOverLimit) => out.result = Ok(DurationZERO)

\* velocity > 0.0 and current_usage < 100.0 as f64 comparisons, both finite
VelocityIncreasing ==
    call.velocity.k = "fin" /\ F64Cmp(call.velocity, F64_0) > 0

UsageBelowLimit ==
    call.current_usage.k = "fin" /\ F64Cmp(call.current_usage, F64_100) < 0

\* the usages below 100 and the velocities above 0 that are whole halves,
\* by their number of halves
UsageOfHalves == [u \in -20..199 |-> F64Lit(u, 2)]
VelocityOfHalves == [h \in 1..MaxVelocityHalves |-> F64Lit(h, 2)]

\* a duration in nanoseconds
TotalNanos(d) == BigAdd(BigMul(d.secs, NanosPerSec), BigOfNat(d.nanos))

\* 60 * (100 - u/2) / (h/2) seconds in nanoseconds, in exact arithmetic:
\* <<whole nanoseconds, remainder>>
ExactNanos(u, h) == BigDivMod(BigMul(BigOfNat(60 * (200 - u)), NanosPerSec), BigOfNat(h))

\* d is the exact time rounded to a nanosecond, down or up
WithinANano(d, exact) ==
    \/ TotalNanos(d) = exact[1]
    \/ exact[2] # <<>> /\ TotalNanos(d) = BigAdd(exact[1], <<1>>)

\* the result is 60 * (100 - current_usage) / velocity seconds where the
\* arguments are whole halves
ExactOnHalves ==
    \A u \in DOMAIN UsageOfHalves, h \in DOMAIN VelocityOfHalves :
        (call.current_usage = UsageOfHalves[u] /\ call.velocity = VelocityOfHalves[h])
            => WithinANano(out.result.v, ExactNanos(u, h))

\* C11: for a finite velocity greater than zero and a finite current_usage
\* below 100, calculate_time_to_limit returns a duration, and it is
\* 60 * (100 - current_usage) / velocity seconds
C11_MinutesInSeconds ==
    (out.called /\ VelocityIncreasing /\ UsageBelowLimit)
        => out.result.ok /\ ExactOnHalves

\* the part of C11 that is about the calls that return
C11_MinutesInSecondsWhenReturned ==
    (out.called /\ VelocityIncreasing /\ UsageBelowLimit /\ out.result.ok) => ExactOnHalves

\* 80% at 2% per minute gave 600 seconds
C11_Witness ==
    /\ out.called
    /\ call.current_usage = F64FromInt(80)
    /\ call.velocity = F64FromInt(2)
    /\ out.result = Ok(from_secs(BigOfNat(600)))
(***************************************************************************)
(* calculate_velocity on its own: forecast_single calls it with one        *)
(* account's samples, which forecast() has sorted by collected_at          *)
(***************************************************************************)
MaxVelocitySamples == 3

\* the smallest f64 above zero
F64MinPositive == [k |-> "fin", s |-> 0, m |-> <<1>>, e |-> MinExp]

\* usages as a provider reports them, one too small to divide, and one
\* without bound
VelocityUsages == {F64_0, F64FromInt(50), F64FromInt(55), F64MinPositive, F64Inf(0)}

\* 70 years in milliseconds: more seconds than an i32 holds
SeventyYears == I64(FALSE, BigMul(BigOfNat(2207520), BigOfNat(10^6)))

\* collection times: within a minute of the first, a minute after it to
\* the millisecond, ten minutes after it, and a lifetime later
VelocityTimes ==
    {DateTime(0), DateTime(10000), DateTime(59999), DateTime(60000), DateTime(600000),
     SeventyYears}

VelocitySamples ==
    {UsageSample("openai", "a", used_percent, collected_at, None) :
        used_percent \in VelocityUsages, collected_at \in VelocityTimes}

InitVelocity ==
    /\ config = DefaultConfig
    /\ now = StartMillis
    /\ samples = <<>>
    /\ calls = 0
    /\ out = NotCalled
    /\ prev = NotCalled
    /\ call = NotCalled

\* the account's list grows by a sample collected no earlier than its last
CollectSample ==
    /\ Len(samples) < MaxVelocitySamples
    /\ \E sample \in VelocitySamples :
          /\ IF samples = <<>> THEN TRUE
             ELSE I64Le(Last(samples).collected_at, sample.collected_at)
          /\ samples' = Append(samples, sample)
    /\ out' = NotCalled
    /\ call' = NotCalled
    /\ UNCHANGED <<config, now, calls, prev>>

\* Self::calculate_velocity(samples)
Velocity ==
    /\ ~out.called
    /\ call' = [called |-> TRUE, samples |-> samples]
    /\ out' = [called |-> TRUE, result |-> calculate_velocity(samples)]
    /\ UNCHANGED <<config, now, samples, calls, prev>>

NextVelocity == CollectSample \/ Velocity

SpecVelocity == InitVelocity /\ [][NextVelocity]_vars

\* the oldest and the newest sample of the call, and what lies between them
Oldest == First(call.samples)
Newest == Last(call.samples)
UsageDiff == F64Sub(Newest.used_percent, Oldest.used_percent)
ElapsedMillis == signed_duration_since(Newest.collected_at, Oldest.collected_at)
ElapsedSeconds == num_seconds(ElapsedMillis)

OfTwoOrMore == out.called /\ Len(call.samples) >= 2
AMinuteApart == I64Le(DateTime(60000), ElapsedMillis)

\* the usage difference over the given seconds (an i64 of at most 53
\* bits), in percent per minute
PerMinute(seconds) == F64Div(UsageDiff, F64Div(F64FromI32(seconds), F64_60))

\* the seconds an i32 holds
SecondsInI32 ==
    IF I64Le(ElapsedSeconds, I64OfInt(I32Max)) THEN ElapsedSeconds ELSE I64OfInt(I32Max)

C13_RawDifferenceWithinAMinute ==
    (OfTwoOrMore /\ ~AMinuteApart) => out.result = UsageDiff

\* 50% then 55% ten seconds later gave 5, not 30
C13_Witness ==
    /\ out.called
    /\ Len(call.samples) = 2
    /\ Oldest.used_percent = F64FromInt(50)
    /\ Newest.used_percent = F64FromInt(55)
    /\ ElapsedMillis = DateTime(10000)
    /\ out.result = F64FromInt(5)

Rising == F64Gt(Newest.used_percent, Oldest.used_percent)
Falling == F64Lt(Newest.used_percent, Oldest.used_percent)
Level == F64Le(Newest.used_percent, Oldest.used_percent) /\ ~Falling

\* C14 as stated: the velocity is greater than zero when the newest
\* used_percent is higher than the oldest, less than zero when it is lower,
\* and zero when they are equal, for every elapsed time
C14_SignFollowsUsage ==
    OfTwoOrMore =>
        /\ Rising => F64Gt(out.result, F64_0)
        /\ Falling => F64Lt(out.result, F64_0)
        /\ Level => IsZero(out.result)

\* the smallest normal f64, 2^-1022
F64MinNormal == [k |-> "fin", s |-> 0, m |-> <<1>>, e |-> -1022]

BothFinite == Oldest.used_percent.k = "fin" /\ Newest.used_percent.k = "fin"
DiffIsNormal == F64Le(F64MinNormal, UsageDiff) \/ F64Le(UsageDiff, F64Neg(F64MinNormal))

\* C14: for finite usages the velocity is never of the other sign: it is
\* zero or more when the newest used_percent is higher than the oldest,
\* zero or less when it is lower, and zero when they are equal, for every
\* elapsed time; it is not zero when the usages differ by a normal f64
\* (2^-1022 or more)
C14_SignNeverAgainstUsage ==
    (OfTwoOrMore /\ BothFinite) =>
        /\ Rising => F64Le(F64_0, out.result)
        /\ Falling => F64Le(out.result, F64_0)
        /\ Level => IsZero(out.result)
        /\ DiffIsNormal => ~IsZero(out.result)

\* 55% then 50% ten minutes later gave half a percent per minute down
C14_Witness ==
    /\ out.called
    /\ Len(call.samples) = 2
    /\ Oldest.used_percent = F64FromInt(55)
    /\ Newest.used_percent = F64FromInt(50)
    /\ ElapsedMillis = DateTime(600000)
    /\ out.result = F64Lit(-1, 2)

\* C15: calculate_velocity returns exactly 0 for a list of no sample or of
\* one sample
C15_ZeroBelowTwoSamples ==
    (out.called /\ Len(call.samples) < 2) => out.result = F64_0

\* one sample, of a usage without bound, gave 0
C15_Witness ==
    /\ out.called
    /\ Len(call.samples) = 1
    /\ Oldest.used_percent = F64Inf(0)
    /\ out.result = F64_0
(***************************************************************************)
(* calculate_confidence on its own: forecast_single calls it with one      *)
(* account's samples, sorted by collected_at, and it reads the wall clock  *)
(***************************************************************************)
MaxAnySamples == 3
MaxConfidenceSamples == 11

\* usages as a provider reports them, and the NaN of a provider that
\* divided zero by zero
ConfidenceUsages == {F64FromInt(10), F64FromInt(13), F64NaN}

ConfidenceTimes == {DateTime(0), DateTime(60000)}

ConfidenceSamples ==
    {UsageSample("openai", "a", used_percent, collected_at, None) :
        used_percent \in ConfidenceUsages, collected_at \in ConfidenceTimes}

\* the wall clock at the call: before, among and after the samples
ConfidenceClocks == {0, 300000, StartMillis}

\* the sample that follows b as b followed a: as much later, as much more
NextOnTheLine(a, b) ==
    UsageSample(b.provider, b.account,
                F64Add(b.used_percent, F64Sub(b.used_percent, a.used_percent)),
                I64Add(b.collected_at, signed_duration_since(b.collected_at, a.collected_at)),
                None)

InitConfidence ==
    /\ config = DefaultConfig
    /\ now \in ConfidenceClocks
    /\ samples = <<>>
    /\ calls = 0
    /\ out = NotCalled
    /\ prev = NotCalled
    /\ call = NotCalled

\* the account's list grows by a sample collected no earlier than its last
CollectAnySample ==
    /\ Len(samples) < MaxAnySamples
    /\ \E sample \in ConfidenceSamples :
          /\ IF samples = <<>> THEN TRUE
             ELSE I64Le(Last(samples).collected_at, sample.collected_at)
          /\ samples' = Append(samples, sample)
    /\ out' = NotCalled
    /\ call' = NotCalled
    /\ UNCHANGED <<config, now, calls, prev>>

\* the account's list grows by the sample that continues its last two,
\* both of a usage that is a number
CollectNextSample ==
    /\ Len(samples) >= 2
    /\ Len(samples) < MaxConfidenceSamples
    /\ ~IsNaN(samples[Len(samples) - 1].used_percent)
    /\ ~IsNaN(Last(samples).used_percent)
    /\ samples' = Append(samples, NextOnTheLine(samples[Len(samples) - 1], Last(samples)))
    /\ out' = NotCalled
    /\ call' = NotCalled
    /\ UNCHANGED <<config, now, calls, prev>>

\* Self::calculate_confidence(samples, velocity)
Confidence ==
    /\ ~out.called
    /\ call' = [called |-> TRUE, samples |-> samples, clock |-> UtcNow]
    /\ out' = [called |-> TRUE, result |-> calculate_confidence(samples, UtcNow)]
    /\ UNCHANGED <<config, now, samples, calls, prev>>

NextConfidence == CollectAnySample \/ CollectNextSample \/ Confidence

SpecConfidence == InitConfidence /\ [][NextConfidence]_vars

\* C16 as stated: for every sample list and every value of the current
\* time calculate_confidence returns a value between 0.1 and 0.99
\* inclusive, and exactly 0.1 for the empty list
C16_ConfidenceInRange ==
    out.called =>
        /\ F64Le(F64_0_1, out.result) /\ F64Le(out.result, F64_0_99)
        /\ call.samples = <<>> => out.result = F64_0_1

AllFinite(ss) == \A i \in 1..Len(ss) : ss[i].used_percent.k = "fin"

\* the part of C16 that is about lists of finite usages
C16_ConfidenceInRangeWhenFinite ==
    (out.called /\ AllFinite(call.samples)) =>
        /\ F64Le(F64_0_1, out.result) /\ F64Le(out.result, F64_0_99)
        /\ call.samples = <<>> => out.result = F64_0_1

\* a list with a NaN usage in it gave a NaN confidence
C16_Witness ==
    /\ out.called
    /\ Len(call.samples) = 3
    /\ call.samples[1].used_percent = F64FromInt(10)
    /\ IsNaN(call.samples[2].used_percent)
    /\ call.samples[3].used_percent = F64FromInt(13)
    /\ IsNaN(out.result)

\* the k newest samples of the call: the same newest sample, so the same age
Newer(k) == SubSeq(call.samples, Len(call.samples) - k + 1, Len(call.samples))

\* a == b as f64 values: false when either is NaN
F64Same(a, b) == F64Le(a, b) /\ F64Le(b, a)

\* the variance term of a list
VarianceOf(ss) == variance(WindowVelocities(ss, 1))

\* the confidence of the call's k newest samples against that of them all
NewerIsNoHigher(k, some, all) ==
    F64Same(some, all) =>
        /\ F64Le(calculate_confidence(Newer(k), call.clock), out.result)
        /\ k >= 10 => calculate_confidence(Newer(k), call.clock) = out.result

\* none of the shorter lists of newest samples is more confident
NoNewerIsHigher(all) ==
    \A k \in 1..(Len(call.samples) - 1) : NewerIsNoHigher(k, VarianceOf(Newer(k)), all)

\* the newest sample is current: less than a minute old at the call
NewestIsCurrent ==
    num_minutes(signed_duration_since(call.clock, Last(call.samples).collected_at)).mag = <<>>

\* the adjacent pairs of the call all have the first pair's velocity
VelocitiesConstant ==
    /\ Len(WindowVelocities(call.samples, 1)) = Len(call.samples) - 1
    /\ \A i \in 1..(Len(call.samples) - 1) :
          F64Same(WindowVelocities(call.samples, 1)[i], WindowVelocities(call.samples, 1)[1])

\* C17: at the same age of the newest sample and the same variance of the
\* adjacent-pair velocities more samples never get a lower confidence than
\* fewer, from 10 samples on more samples change nothing, and 6 samples
\* get a strictly higher confidence than 2 when the newest sample is
\* current and the velocities are constant
C17_MoreSamplesNoLessConfidence ==
    out.called =>
        /\ NoNewerIsHigher(VarianceOf(call.samples))
        /\ (Len(call.samples) = 6 /\ NewestIsCurrent /\ VelocitiesConstant)
              => /\ F64Lt(calculate_confidence(Newer(2), call.clock), out.result)
                 /\ out.result = F64Lit(6, 10)

\* eleven samples a minute apart at a constant velocity, the newest a
\* minute old: as confident as the ten newest of them
C17_Witness ==
    /\ out.called
    /\ Len(call.samples) = 11
    /\ VelocitiesConstant
    /\ ~NewestIsCurrent
    /\ F64Lt(F64_0_1, out.result)
    /\ out.result = calculate_confidence(Newer(10), call.clock)
    /\ F64Lt(calculate_confidence(Newer(9), call.clock), out.result)
(***************************************************************************)
(* calculate_optimal_swap_time on its own                                  *)
(***************************************************************************)
MaxSwapSecs == 12

\* times to the limit: up to MaxSwapSecs whole seconds, with and without
\* half a second more, ten minutes and a second around them, a time
\* beyond the last DateTime, and the times around the sentinel
SwapSecs ==
    {BigOfNat(n) : n \in 0..MaxSwapSecs}
        \cup {BigOfNat(599), BigOfNat(600), BigOfNat(601), BigOfNat(10^9),
              BigMul(BigOfNat(10^9), BigOfNat(10^5)),
              BigSub(SentinelSecs, BigOfNat(1000)), BigSub(SentinelSecs, BigOfNat(999)),
              SentinelSecs, U64Max}

SwapDurations == {[secs |-> secs, nanos |-> nanos] : secs \in SwapSecs, nanos \in {0, 500000000}}

\* reset times: none, long past, a minute before the clock's start, at it,
\* half a second to eleven minutes after it, and a lifetime later
SwapResets ==
    {None, Some(I64Neg(SeventyYears)), Some(SeventyYears)}
        \cup {Some(DateTime(StartMillis + ahead)) :
                ahead \in {-60000, 0, 500, 5000, 5999, 6000, 600000, 600999, 601000, 660000}}

InitSwapTime ==
    /\ config = DefaultConfig
    /\ now = StartMillis
    /\ samples = <<>>
    /\ calls = 0
    /\ out = NotCalled
    /\ prev = NotCalled
    /\ call = NotCalled

\* Self::calculate_optimal_swap_time(time_to_limit, resets_at)
OptimalSwapTime ==
    /\ ~out.called
    /\ \E time_to_limit \in SwapDurations, resets_at \in SwapResets :
          /\ call' = [called |-> TRUE, time_to_limit |-> time_to_limit,
                      resets_at |-> resets_at, clock |-> UtcNow]
          /\ out' = [called |-> TRUE,
                     result |-> calculate_optimal_swap_time(time_to_limit, resets_at, UtcNow)]
    /\ UNCHANGED <<config, now, samples, calls, prev>>

NextSwapTime == Tick \/ OptimalSwapTime

SpecSwapTime == InitSwapTime /\ [][NextSwapTime]_vars

\* time_to_limit in whole seconds, as an i64 and as a u64
LimitSecs == I64(FALSE, call.time_to_limit.secs)

\* reset_time - now in whole seconds, negative for a reset that is past
TimeToReset == num_seconds(signed_duration_since(call.resets_at.t, call.clock))

ResetKnown == out.called /\ call.resets_at.some
ResetAhead == I64Lt(call.clock, call.resets_at.t)

\* C18 as stated: calculate_optimal_swap_time returns None whenever the
\* reset is known and time_to_reset = reset_time - now is less than
\* time_to_limit in seconds
C18_NoneWhenResetFirst ==
    (ResetKnown /\ I64Lt(TimeToReset, LimitSecs)) => out.result = Ok(None)

\* C18: calculate_optimal_swap_time returns None whenever the reset is
\* known, reset_time is later than now, and the whole seconds from now to
\* reset_time are fewer than the whole seconds of time_to_limit
C18_NoneWhenResetAheadFirst ==
    (ResetKnown /\ ResetAhead /\ I64Lt(TimeToReset, LimitSecs)) => out.result = Ok(None)

\* a reset 600.999 seconds ahead and 601 seconds to the limit gave None
C18_Witness ==
    /\ ResetKnown
    /\ call.clock = DateTime(StartMillis)
    /\ call.resets_at = Some(DateTime(StartMillis + 600999))
    /\ call.time_to_limit = from_secs(BigOfNat(601))
    /\ out.result = Ok(None)

\* past the guard of line 280: more than u64::MAX / 2 - 1000 seconds
PracticallyInfinite == BigLt(BigSub(SentinelSecs, BigOfNat(1000)), call.time_to_limit.secs)

\* C19: calculate_optimal_swap_time returns None whenever time_to_limit is
\* zero seconds or the sentinel of u64::MAX / 2 seconds, with a reset time
\* and without one
C19_NoneAtZeroAndSentinel ==
    (out.called /\ (call.time_to_limit.secs = <<>> \/ call.time_to_limit.secs = SentinelSecs))
        => out.result = Ok(None)

\* the sentinel with a reset that is past gave None
C19_Witness ==
    /\ out.called
    /\ call.time_to_limit = from_secs(SentinelSecs)
    /\ call.resets_at = Some(DateTime(StartMillis - 60000))
    /\ out.result = Ok(None)

\* now + s - floor(s / 5) seconds
SwapAfter(s) ==
    I64Add(call.clock, I64(FALSE, BigMul(BigSub(s, BigDivMod(s, <<5>>)[1]), BigOfNat(1000))))

\* neither zero nor practically infinite, and no reset known or
\* time_to_reset at least time_to_limit seconds
SwapIsDue ==
    /\ out.called
    /\ call.time_to_limit.secs # <<>>
    /\ ~PracticallyInfinite
    /\ call.resets_at.some => I64Le(LimitSecs, TimeToReset)

\* C20: when time_to_limit is neither zero nor the sentinel, and no reset
\* is known or time_to_reset is greater than or equal to time_to_limit
\* seconds, calculate_optimal_swap_time returns
\* Some(now + s - floor(s / 5) seconds), s the whole seconds of
\* time_to_limit
C20_SwapAtFourFifths ==
    SwapIsDue => out.result = Ok(Some(SwapAfter(call.time_to_limit.secs)))

\* the part of C20 that is about the calls that return
C20_SwapAtFourFifthsWhenReturned ==
    (SwapIsDue /\ out.result.ok) => out.result = Ok(Some(SwapAfter(call.time_to_limit.secs)))

\* 600 seconds to the limit and a reset 600.999 seconds ahead gave now +
\* 480 seconds
C20_Witness ==
    /\ out.called
    /\ call.time_to_limit = from_secs(BigOfNat(600))
    /\ call.resets_at = Some(DateTime(StartMillis + 600999))
    /\ call.clock = DateTime(StartMillis)
    /\ out.result = Ok(Some(DateTime(StartMillis + 480000)))
(***************************************************************************)
(* rank_alternative_accounts on its own: the caller collects samples of    *)
(* several providers and accounts, in any order, and asks for the          *)
(* alternatives to its current account.                                    *)
(***************************************************************************)
MaxRankSamples == 3

\* used_percent of the samples: 50, 80, 90 (a headroom of exactly 10), 95 and
\* a reading that is not a number
RankSample(provider, account, used_percent) ==
    UsageSample(provider, account, used_percent, DateTime(0), None)

RankSamples ==
    {RankSample("openai", "a", F64FromInt(50)),
     RankSample("openai", "b", F64FromInt(50)),
     RankSample("openai", "b", F64FromInt(80)),
     RankSample("openai", "b", F64FromInt(90)),
     RankSample("openai", "b", F64NaN),
     RankSample("openai", "c", F64FromInt(50)),
     RankSample("openai", "c", F64FromInt(80)),
     RankSample("claude", "b", F64FromInt(95)),
     RankSample("claude", "d", F64FromInt(50))}

\* the (current_provider, current_account) the caller asks about
Currents == {<<"openai", "a">>, <<"claude", "b">>}

InitRank ==
    /\ config = DefaultConfig
    /\ now = StartMillis
    /\ samples = <<>>
    /\ calls = 0
    /\ out = NotCalled
    /\ prev = NotCalled
    /\ call = NotCalled

\* the caller's list grows by a sample, in any order
CollectRankSample ==
    /\ ~out.called
    /\ Len(samples) < MaxRankSamples
    /\ \E sample \in RankSamples : samples' = Append(samples, sample)
    /\ UNCHANGED <<config, now, calls, out, prev, call>>

\* forecaster.rank_alternative_accounts(samples, current_provider,
\* current_account), the HashMap iterating in some order
RankAlternativeAccounts ==
    /\ ~out.called
    /\ \E current \in Currents :
         \E order \in IterationOrders(DOMAIN AccountsAfter(samples, Len(samples), current[1], current[2])) :
            /\ call' = [called |-> TRUE, samples |-> samples,
                        current_provider |-> current[1],
                        current_account |-> current[2], order |-> order]
            /\ out' = [called |-> TRUE,
                       result |-> rank_alternative_accounts(samples, current[1], current[2], order)]
    /\ UNCHANGED <<config, now, samples, calls, prev>>

NextRank == CollectRankSample \/ RankAlternativeAccounts

SpecRank == InitRank /\ [][NextRank]_vars

\* the samples of the call that are of the current provider
OfCurrentProvider(sample) == sample.provider = call.current_provider

\* the samples of the call that make the account a candidate
CandidateSamples(account) ==
    {i \in 1..Len(call.samples) :
        /\ call.samples[i].provider = call.current_provider
        /\ call.samples[i].account = account
        /\ account # call.current_account}

\* the accounts named in the list returned
Ranked == {out.result[i][1] : i \in 1..Len(out.result)}

\* C21: every account returned by rank_alternative_accounts has a sample of
\* the current provider under another account than the current one, the
\* current account is never returned, and the samples of other providers do
\* not bear on the list: without them the same list is returned.
C21_OnlyOtherAccountsOfProvider ==
    out.called =>
        /\ \A account \in Ranked : CandidateSamples(account) # {}
        /\ call.current_account \notin Ranked
        /\ out.result = rank_alternative_accounts(SelectSeq(call.samples, OfCurrentProvider),
                                                  call.current_provider,
                                                  call.current_account, call.order)

\* C21 witness: account b, at 50 with openai and at 95 with claude, is
\* returned alone with a headroom of 50 beside the current account a.
C21_Witness ==
    /\ out.called
    /\ call.current_provider = "openai"
    /\ call.current_account = "a"
    /\ call.samples = <<RankSample("claude", "b", F64FromInt(95)),
                        RankSample("openai", "a", F64FromInt(50)),
                        RankSample("openai", "b", F64FromInt(50))>>
    /\ out.result = <<<<"b", F64FromInt(50)>>>>

\* the used_percent values of the samples that make the account a candidate
CandidateUsages(account) ==
    {call.samples[i].used_percent : i \in CandidateSamples(account)}

\* the greatest of these values, a reading that is not a number standing
\* back behind every number (f64::max)
GreatestUsage(account) ==
    IF \A u \in CandidateUsages(account) : IsNaN(u) THEN F64NaN
    ELSE CHOOSE u \in CandidateUsages(account) :
            /\ ~IsNaN(u)
            /\ \A v \in CandidateUsages(account) : IsNaN(v) \/ F64Le(v, u)

\* 100 minus the greatest used_percent of the account
HeadroomOf(account) == F64Sub(F64_100, GreatestUsage(account))

\* the places of the account in the list returned
PlacesOf(account) == {i \in 1..Len(out.result) : out.result[i][1] = account}

\* the accounts of the call that have a sample of the current provider and
\* are not the current account
Candidates ==
    {call.samples[i].account : i \in {k \in 1..Len(call.samples) :
        /\ call.samples[k].provider = call.current_provider
        /\ call.samples[k].account # call.current_account}}

\* the candidate is in the list exactly when its headroom is above 10, once,
\* with that headroom
RankedByHeadroom(account) ==
    /\ (PlacesOf(account) # {}) <=> F64Gt(HeadroomOf(account), F64_10)
    /\ Cardinality(PlacesOf(account)) <= 1
    /\ \A i \in PlacesOf(account) : out.result[i][2] = HeadroomOf(account)

\* C22: a candidate account is returned exactly when 100 minus the greatest
\* used_percent of its samples of the current provider is strictly above 10;
\* it is returned at most once, with that value as its headroom; a headroom
\* of exactly 10 or less keeps it out.
C22_ReturnedIffHeadroomAboveTen ==
    out.called => \A account \in Candidates : RankedByHeadroom(account)

\* C22 for candidates whose used_percent readings are all numbers.
C22_ReturnedIffHeadroomAboveTenOfNumbers ==
    out.called =>
        \A account \in Candidates :
            (\A u \in CandidateUsages(account) : ~IsNaN(u)) => RankedByHeadroom(account)

\* C22 witness: account b was read at 50 after a reading that is not a
\* number; the number gives a headroom of 50, and b is not returned.
C22_Witness ==
    /\ out.called
    /\ call.current_provider = "openai"
    /\ call.current_account = "a"
    /\ call.samples = <<RankSample("openai", "b", F64NaN),
                        RankSample("openai", "b", F64FromInt(50))>>
    /\ out.result = <<>>

\* the numbers at work: c at 80 is returned with a headroom of 20; b, read
\* at 90, has a headroom of exactly 10 and is left out
C22_WitnessOfNumbers ==
    /\ out.called
    /\ call.current_provider = "openai"
    /\ \E i \in 1..Len(call.samples) :
          call.samples[i] = RankSample("openai", "b", F64FromInt(90))
    /\ \E i \in 1..Len(call.samples) :
          call.samples[i] = RankSample("openai", "c", F64FromInt(80))
    /\ out.result = <<<<"c", F64FromInt(20)>>>>

\* C23: the list returned by rank_alternative_accounts is in order of
\* non-increasing headroom, every entry having no more headroom than the one
\* before it, so that the first entry has the most headroom of all.
C23_SortedByHeadroomDescending ==
    out.called =>
        /\ \A i \in 1..(Len(out.result) - 1) :
              F64Le(out.result[i + 1][2], out.result[i][2])
        /\ \A i \in 1..Len(out.result) :
              F64Le(out.result[i][2], out.result[1][2])

\* C23 witness: the map gave b (headroom 20) before c (headroom 50), and c
\* is returned first.
C23_Witness ==
    /\ out.called
    /\ call.order = <<"b", "c">>
    /\ out.result = <<<<"c", F64FromInt(50)>>, <<"b", F64FromInt(20)>>>>

(***************************************************************************)
(* group_by_account on its own: samples of three accounts, two of them of  *)
(* one provider and two of one name, collected at two times and handed     *)
(* over in any order, the same sample possibly more than once.             *)
(***************************************************************************)
MaxGroupSamples == 3

GroupKeys == {<<"openai", "a">>, <<"openai", "b">>, <<"claude", "a">>}

GroupSamples ==
    {UsageSample(key[1], key[2], F64FromInt(used), DateTime(at), None) :
        key \in GroupKeys, used \in {10, 20}, at \in {0, TickMillis}}

InitGroup ==
    /\ config = DefaultConfig
    /\ now = StartMillis
    /\ samples = <<>>
    /\ calls = 0
    /\ out = NotCalled
    /\ prev = NotCalled
    /\ call = NotCalled

\* the caller's list grows by a sample, in any order
CollectGroupSample ==
    /\ ~out.called
    /\ Len(samples) < MaxGroupSamples
    /\ \E sample \in GroupSamples : samples' = Append(samples, sample)
    /\ UNCHANGED <<config, now, calls, out, prev, call>>

\* Self::group_by_account(samples)
GroupByAccount ==
    /\ ~out.called
    /\ call' = [called |-> TRUE, samples |-> samples]
    /\ out' = [called |-> TRUE, result |-> group_by_account(samples)]
    /\ UNCHANGED <<config, now, samples, calls, prev>>

NextGroup == CollectGroupSample \/ GroupByAccount

SpecGroup == InitGroup /\ [][NextGroup]_vars

\* the places of the input that hold a sample of the key
InputPlaces(key) ==
    {i \in 1..Len(call.samples) : AccountKey(call.samples[i]) = key}

\* the group holds the samples at the places, each once, as p tells, by
\* non-decreasing collected_at and, at equal collected_at, in input order
GroupedAs(group, places, p) ==
    /\ \A i \in places : \E k \in DOMAIN p : p[k] = i
    /\ \A k, l \in DOMAIN p : p[k] = p[l] => k = l
    /\ \A k \in DOMAIN p : group[k] = call.samples[p[k]]
    /\ \A k, l \in DOMAIN p :
          k < l => \/ I64Lt(group[k].collected_at, group[l].collected_at)
                   \/ /\ group[k].collected_at = group[l].collected_at
                      /\ p[k] < p[l]

\* C24: group_by_account partitions its input by (provider, account): there
\* is a group for exactly the keys of the input, none empty; the group of a
\* key holds the samples of that key and no other, each input sample once,
\* none lost or duplicated; and each group is in order of non-decreasing
\* collected_at, samples of equal collected_at in their input order.
C24_GroupsPartitionInTimeOrder ==
    out.called =>
        /\ DOMAIN out.result = Keys(call.samples)
        /\ \A key \in DOMAIN out.result :
              /\ out.result[key] # <<>>
              /\ \E p \in [DOMAIN out.result[key] -> InputPlaces(key)] :
                    GroupedAs(out.result[key], InputPlaces(key), p)

\* C24 witness: openai/a is handed over with 20 at one minute, then with 20
\* and with 10 at time 0; its group is the two samples of time 0 in that
\* order, then the sample of one minute.
C24_Witness ==
    /\ out.called
    /\ call.samples = <<UsageSample("openai", "a", F64FromInt(20), DateTime(TickMillis), None),
                        UsageSample("openai", "a", F64FromInt(20), DateTime(0), None),
                        UsageSample("openai", "a", F64FromInt(10), DateTime(0), None)>>
    /\ out.result[<<"openai", "a">>] =
          <<call.samples[2], call.samples[3], call.samples[1]>>

\* two providers with one account name and two accounts of one provider
\* are kept apart
C24_WitnessOfThreeGroups ==
    /\ out.called
    /\ Cardinality(DOMAIN out.result) = 3

(***************************************************************************)
(* forecast on a fleet: the caller hands over the histories of several     *)
(* accounts of one provider, one history after the other in any order,     *)
(* and asks for the forecasts once.                                        *)
(***************************************************************************)
MaxAccounts == 3

\* the two samples of an account, ten minutes apart, the later one read a
\* minute before the call
History(provider, account, first_percent, last_percent) ==
    <<UsageSample(provider, account, first_percent, DateTime(0), None),
      UsageSample(provider, account, last_percent, DateTime(600000), None)>>

\* the only sample of an account, read a minute before the call
OneSample(provider, account, used_percent) ==
    <<UsageSample(provider, account, used_percent, DateTime(600000), None)>>

\* the histories a caller may hold:
\*   openai/a  50 then 80    (3 %/min, 400 s to the limit)
\*   openai/b  50 then 95    (4.5 %/min, 66.6 s to the limit)
\*   openai/c  50 then 100   (5 %/min, at the limit)
\*   openai/d  100, one sample
\*   openai/e  10, one sample (ample headroom)
Histories ==
    {History("openai", "a", F64FromInt(50), F64FromInt(80)),
     History("openai", "b", F64FromInt(50), F64FromInt(95)),
     History("openai", "c", F64FromInt(50), F64_100),
     OneSample("openai", "d", F64_100),
     OneSample("openai", "e", F64_10)}

\* the forecaster is built by new or by with_config, which takes thresholds
\* in any order
FleetConfigs == {DefaultConfig, CustomConfig, UnorderedConfig}

InitFleet ==
    /\ config \in FleetConfigs
    /\ now = StartMillis
    /\ samples = <<>>
    /\ calls = 0
    /\ out = NotCalled
    /\ prev = NotCalled
    /\ call = NotCalled

\* the caller's list grows by the history of an account it did not hold yet
AddHistory ==
    /\ ~out.called
    /\ calls < MaxAccounts
    /\ calls' = calls + 1
    /\ \E history \in Histories :
          /\ AccountKey(history[1]) \notin Keys(samples)
          /\ samples' = samples \o history
    /\ UNCHANGED <<config, now, out, prev, call>>

\* forecaster.forecast(samples), the HashMap iterating in some order
ForecastFleet ==
    /\ ~out.called
    /\ \E order \in IterationOrders(DOMAIN group_by_account(samples)) :
          out' = [called |-> TRUE, at |-> now, order |-> order,
                  result |-> forecast(config, samples, UtcNow, order)]
    /\ UNCHANGED <<config, now, samples, calls, prev, call>>

NextFleet == AddHistory \/ ForecastFleet

SpecFleet == InitFleet /\ [][NextFleet]_vars

\* the sample at place k is of the forecast's account and no sample of that
\* account was collected later
IsNewestOf(k, f) ==
    /\ AccountKey(samples[k]) = ForecastKey(f)
    /\ \A l \in 1..Len(samples) :
          AccountKey(samples[l]) = ForecastKey(f)
              => I64Le(samples[l].collected_at, samples[k].collected_at)

\* the forecast has the usage of the sample and the swap time that comes of
\* the sample's resets_at at the time of the call
CurrentFrom(sample, f, at) ==
    /\ f.current_usage_pct = sample.used_percent
    /\ Ok(f.optimal_swap_time)
          = calculate_optimal_swap_time(f.time_to_limit, sample.resets_at, DateTime(at))

\* C25: in every forecast returned by forecast(), current_usage_pct is the
\* used_percent of the account's sample with the greatest collected_at,
\* wherever it stands in the input, and optimal_swap_time is what
\* calculate_optimal_swap_time gives for the resets_at of that sample.
C25_CurrentIsNewestSample ==
    Returned(out) =>
        \A i \in DOMAIN out.result.v :
            \E k \in 1..Len(samples) :
                /\ IsNewestOf(k, out.result.v[i])
                /\ CurrentFrom(samples[k], out.result.v[i], out.at)

\* C25 witness: the newest sample of openai/a (80, reset due) stands first
\* in the input, the older one (50, no reset known) after it; a minute
\* later the forecast shows 80 and no swap time, the reset of the newest
\* sample coming before the limit.
C25_Witness ==
    /\ Returned(out)
    /\ out.at = StartMillis + TickMillis
    /\ samples = <<UsageSample("openai", "a", F64FromInt(80), DateTime(600000),
                                Some(DateTime(1100000))),
                   UsageSample("openai", "a", F64FromInt(50), DateTime(0), None)>>
    /\ Len(out.result.v) = 1
    /\ out.result.v[1].current_usage_pct = F64FromInt(80)
    /\ out.result.v[1].optimal_swap_time = None

\* the forecast names no account to swap to
NamesNoTarget(f) ==
    /\ f.alternative_accounts = <<>>
    /\ f.recommended_action.type = "SwapNow" => f.recommended_action.to_account = ""

\* C26: forecast() never names a swap target: in every forecast returned
\* alternative_accounts is the empty list and a SwapNow action has the empty
\* string as to_account, also when the input holds other accounts of the
\* same provider with ample headroom.
C26_NoSwapTargetNamed ==
    Returned(out) => \A i \in DOMAIN out.result.v : NamesNoTarget(out.result.v[i])

\* C26 witness: openai/b is told to swap now while openai/e, at 10 percent,
\* is in the same input and in the same list; b's forecast names nobody.
C26_Witness ==
    /\ Returned(out)
    /\ \E i, j \in DOMAIN out.result.v :
          /\ ForecastKey(out.result.v[i]) = <<"openai", "b">>
          /\ out.result.v[i].recommended_action = [type |-> "SwapNow", to_account |-> ""]
          /\ out.result.v[i].alternative_accounts = <<>>
          /\ ForecastKey(out.result.v[j]) = <<"openai", "e">>
          /\ out.result.v[j].current_usage_pct = F64_10

\* the samples of the account in the input, in input order
OwnSamples(key) == SelectSeq(samples, LAMBDA sample : AccountKey(sample) = key)

\* forecast() at the same time on the account's own samples alone
Alone(key, at) == forecast(config, OwnSamples(key), DateTime(at), <<key>>)

\* the two forecasts are of one account and agree on everything but
\* confidence, swap time and position
SameOutlook(f, g) ==
    /\ ForecastKey(f) = ForecastKey(g)
    /\ f.current_usage_pct = g.current_usage_pct
    /\ f.current_velocity = g.current_velocity
    /\ f.time_to_limit = g.time_to_limit
    /\ f.recommended_action = g.recommended_action

\* the forecast the account gets alone is among those of the result
AsAlone(key, result, at) ==
    \E i \in DOMAIN result : SameOutlook(result[i], Alone(key, at).v[1])

\* C27: the forecast of an account depends on its own samples only: the
\* current_usage_pct, current_velocity, time_to_limit and recommended_action
\* it gets when forecast() is called on its samples alone are those it gets
\* with the samples of any other accounts in the input.
C27_OwnSamplesOnly ==
    out.called =>
        \A key \in Keys(samples) :
            Alone(key, out.at).ok => out.result.ok /\ AsAlone(key, out.result.v, out.at)

\* C27 for the calls that return: every account of the input is forecast as
\* it is alone.
C27_OwnSamplesOnlyWhenReturned ==
    Returned(out) =>
        \A key \in Keys(samples) :
            Alone(key, out.at).ok /\ AsAlone(key, out.result.v, out.at)

\* C27 witness: openai/a has a forecast when its sample is handed over
\* alone; with the two samples of claude/a in the input the call panics
\* and openai/a gets none.
C27_Witness ==
    /\ out.called
    /\ ~out.result.ok
    /\ <<"openai", "a">> \in Keys(samples)
    /\ Alone(<<"openai", "a">>, out.at).ok
    /\ Len(Alone(<<"openai", "a">>, out.at).v) = 1

\* two accounts forecast together as each is alone
C27_WitnessWhenReturned ==
    /\ Returned(out)
    /\ Cardinality(Keys(samples)) = 2
    /\ Len(out.result.v) = 2
    /\ \A key \in Keys(samples) : AsAlone(key, out.result.v, out.at)

\* the severity band of an action: SlowDown and Continue share the last
SeverityBand(action) ==
    IF action.type = "EmergencyPause" THEN 0
    ELSE IF action.type = "SwapNow" THEN 1
    ELSE IF action.type = "PrepareSwap" THEN 2
    ELSE 3

\* C28: in the list returned by forecast(), under every config, the actions
\* come in severity bands: every EmergencyPause before every SwapNow, every
\* SwapNow before every PrepareSwap, every PrepareSwap before every SlowDown
\* and every Continue.
C28_ActionsInSeverityBands ==
    Returned(out) =>
        \A i, j \in DOMAIN out.result.v :
            i < j => SeverityBand(out.result.v[i].recommended_action)
                        <= SeverityBand(out.result.v[j].recommended_action)

\* C28 witness: the HashMap handed out a (PrepareSwap), b (SwapNow) and c
\* (EmergencyPause) in this order; the list has c, b, a.
C28_Witness ==
    /\ Returned(out)
    /\ out.order = <<<<"openai", "a">>, <<"openai", "b">>, <<"openai", "c">>>>
    /\ Len(out.result.v) = 3
    /\ out.result.v[1].recommended_action.type = "EmergencyPause"
    /\ out.result.v[2].recommended_action.type = "SwapNow"
    /\ out.result.v[3].recommended_action.type = "PrepareSwap"

\* under thresholds out of order a and b are both told to swap now, before
\* an account that may continue
C28_WitnessUnordered ==
    /\ Returned(out)
    /\ config = UnorderedConfig
    /\ Len(out.result.v) = 3
    /\ out.order[1] = <<"openai", "e">>
    /\ out.result.v[1].recommended_action.type = "SwapNow"
    /\ out.result.v[2].recommended_action.type = "SwapNow"
    /\ out.result.v[3].recommended_action.type = "Continue"

\* what an account with nothing to measure a velocity on is told
NoTrend(f) ==
    /\ f.current_velocity = F64_0
    /\ f.time_to_limit = from_secs(SentinelSecs)
    /\ f.recommended_action = [type |-> "Continue"]
    /\ f.optimal_swap_time = None

\* the forecasts of the account in the result
ForecastsOf(key, result) == {i \in DOMAIN result : ForecastKey(result[i]) = key}

\* C29: under the default config an account with exactly one sample in the
\* input of forecast() gets current_velocity 0, the sentinel time_to_limit,
\* Continue and no optimal_swap_time, whatever its used_percent, 100 or
\* more included.
C29_OneSampleNoTrend ==
    (Returned(out) /\ config = DefaultConfig) =>
        \A key \in Keys(samples) :
            Len(OwnSamples(key)) = 1 =>
                /\ ForecastsOf(key, out.result.v) # {}
                /\ \A i \in ForecastsOf(key, out.result.v) : NoTrend(out.result.v[i])

\* C29 witness: openai/d, with its one sample at 100 percent, and openai/e,
\* with its one sample at 10 percent, are both told to continue.
C29_Witness ==
    /\ Returned(out)
    /\ config = DefaultConfig
    /\ \E i, j \in DOMAIN out.result.v :
          /\ ForecastKey(out.result.v[i]) = <<"openai", "d">>
          /\ out.result.v[i].current_usage_pct = F64_100
          /\ NoTrend(out.result.v[i])
          /\ ForecastKey(out.result.v[j]) = <<"openai", "e">>
          /\ out.result.v[j].current_usage_pct = F64_10
          /\ NoTrend(out.result.v[j])

\* a swap time is there only with a rising usage and a time_to_limit of a
\* second or more that is below the sentinel; an EmergencyPause and a
\* sentinel time_to_limit come without one
SwapTimeOnlyAhead(f) ==
    /\ f.optimal_swap_time.some =>
          /\ F64Gt(f.current_velocity, F64_0)
          /\ DurationLe(from_secs(<<1>>), f.time_to_limit)
          /\ DurationLt(f.time_to_limit, from_secs(SentinelSecs))
    /\ f.recommended_action.type = "EmergencyPause" => f.optimal_swap_time = None
    /\ f.time_to_limit = from_secs(SentinelSecs) => f.optimal_swap_time = None

\* C30: in every forecast returned by forecast(), optimal_swap_time is
\* present only if current_velocity is above zero and time_to_limit is at
\* least one second and below the sentinel; it is None whenever the action
\* is EmergencyPause and whenever time_to_limit is the sentinel.
C30_SwapTimeOnlyAhead ==
    Returned(out) => \A i \in DOMAIN out.result.v : SwapTimeOnlyAhead(out.result.v[i])

\* C30 witness: one list with an account at the limit (EmergencyPause, no
\* swap time), an account 66 s from it (a swap time 53 s after the call)
\* and an account with one sample (sentinel, no swap time).
C30_Witness ==
    /\ Returned(out)
    /\ Len(out.result.v) = 3
    /\ out.result.v[1].recommended_action.type = "EmergencyPause"
    /\ out.result.v[1].optimal_swap_time = None
    /\ ForecastKey(out.result.v[2]) = <<"openai", "b">>
    /\ out.result.v[2].optimal_swap_time = Some(DateTime(out.at + 53000))
    /\ out.result.v[3].time_to_limit = from_secs(SentinelSecs)
    /\ out.result.v[3].optimal_swap_time = None

=============================================================================
